---------------------------- MODULE Spec2Model ----------------------------
(***************************************************************************)
(* Resilience and access-decision core of the paywall backend:             *)
(*   - the circuit breaker and ProcessPayment (internal/payment/service.go)*)
(*   - the fixed-window rate limiter checkRateLimit (package paywall)      *)
(*   - the paywall handlers CheckAccess and EnforcePaywall with the verdict*)
(*     cache, the subscription lookup and the daily usage counter          *)
(*   - the webhook ingestor HandleWebhook and its detached handler         *)
(*   - the plan service (CreatePlan, GetPlan, UpdatePlan, DeletePlan,      *)
(*     GetActivePlans) with its cache, CreateSubscription as far as it     *)
(*     refers to a plan, and validatePlanRequest                           *)
(*                                                                         *)
(* Time is a discrete clock.  One tick is an arbitrary unit; the recovery  *)
(* timeout and the rate-limit window are counted in ticks.                 *)
(*                                                                         *)
(* The breaker's sync.RWMutex: a call of Lock first joins muWait, and a    *)
(* section under the write lock (the lock granted, the writes, Unlock) is  *)
(* one step that waits until no request holds the read lock (mu = {});     *)
(* nothing in such a section can block.  RLock waits while a Lock call is  *)
(* waiting.  The read lock of CanExecute is taken in one step and released *)
(* in the step that evaluates the switch.  Between releasing the read lock *)
(* and calling Lock a request holds nothing, as in the code; after its     *)
(* write section it takes the read lock again, and the deferred RUnlock    *)
(* releases it when the call returns.                                      *)
(*                                                                         *)
(* payment_transactions is append-only and never read by ProcessPayment:   *)
(* stored[r] = "ok" stands for the row request r inserted.                 *)
(*                                                                         *)
(* The rate-limit key is only ever written by Set(key, "1") and Incr, so   *)
(* its value always parses (strconv.Atoi) and is kept as a number.  The    *)
(* cache store is taken to answer every command; its expiry runs on its    *)
(* own clock (Expire), which may tick between any two commands.            *)
(*                                                                         *)
(* A paywall request occupies one slot of Callers and runs either handler. *)
(* In the paywall specifications the application clock and the cache       *)
(* store's clock advance together (PaywallTick).  The rate-limit window,   *)
(* the verdict cache's lifetime and the day are each counted in ticks of   *)
(* their own.                                                              *)
(* The last tick of a day stands for its last second, 23:59:59.            *)
(*                                                                         *)
(* The subscriptions table holds at most one row per user, so the          *)
(* ORDER BY created_at DESC LIMIT 1 of the lookup has nothing to choose.   *)
(* A cached verdict is kept as the record it was marshalled from: the JSON *)
(* encoding of has_access, reason and expires_at decodes to the same       *)
(* values.                                                                 *)
(*                                                                         *)
(* The plans table and the cache store answer every statement of the plan  *)
(* service; a statement fails only where the schema rejects it (the        *)
(* foreign key of subscriptions.plan_id, ON DELETE RESTRICT).  The         *)
(* subscriptions table is taken to have the columns the statements of      *)
(* CreateSubscription name.  A plan row is its name and a revision number  *)
(* that stands for updated_at and the other columns an update writes.      *)
(* cachePlan's Set of plan:<id> and Del of plans:active are one step.      *)
(* validatePlanRequest is applied to requests drawn from a finite set of   *)
(* values on both sides of every rule.                                     *)
(***************************************************************************)
EXTENDS Integers, Naturals, Sequences, FiniteSets, TLC

\* ------------------------------------------------------------------------
\* Bounds of the model
\* ------------------------------------------------------------------------

\* number of ProcessPayment requests that can be in flight at once
MaxInFlight == 2

\* config.CircuitBreakerConfig.FailureThreshold (configuration value, default 5)
FailureThreshold == 2

\* config.CircuitBreakerConfig.RecoveryTimeout in ticks (configuration value,
\* default 60 seconds)
RecoveryTimeout == 2

\* the clock stops at MaxTime
MaxTime == 6

\* number of checkRateLimit calls that can be in flight at once
MaxCallers == 2

\* length of the rate-limit window (time.Minute) in ticks
WindowTicks == 2

\* number of EnforcePaywall requests accepted in one behaviour
MaxCalls == 5

\* number of CheckAccess requests accepted in one behaviour
MaxChecks == 3

\* number of EnforcePaywall requests accepted in one behaviour of a burst
BurstCalls == 12

\* the paywall's clock stops at PaywallHorizon
PaywallHorizon == 4

\* end_date of the subscriptions in the table, in ticks
SubEnd == 2

\* lifetime of a cached verdict (5*time.Minute) in ticks
AccessTicks == 2

\* length of a day in ticks
DayTicks == 3

\* how far below its limit a counter may be when the behaviour starts
Headroom == 2

\* number of webhook deliveries that can be in flight at once
MaxDeliveries == 2

\* number of plans CreatePlan can add in one behaviour
MaxNewPlans == 2

\* number of plan and subscription requests accepted in one behaviour
MaxPlanCalls == 4

Requests == 1..MaxInFlight
Callers == 1..MaxCallers

\* ------------------------------------------------------------------------
\* State
\* ------------------------------------------------------------------------

VARIABLES
    \* CircuitBreaker fields
    state,              \* "Closed" | "Open" | "HalfOpen"
    failureCount,       \* consecutive failures
    lastFailureTime,    \* clock value stamped by RecordFailure
    mu,                 \* set of requests holding the breaker's read lock
    muWait,             \* set of requests waiting inside cb.mu.Lock()
    \* the clock (time.Now / time.Since)
    now,
    \* one ProcessPayment request per element of Requests
    pc,                 \* position of the request inside ProcessPayment
    resp,               \* HTTP status answered, 0 while unanswered
    gateway,            \* outcome of processPaymentThroughGateway: "none" | "ok" | "err"
    recorded,           \* outcomes this request recorded on the breaker, in order
    stored,             \* outcome of storeTransaction: "none" | "ok" | "err"
    \* history of the breaker
    tripped,            \* the breaker has transitioned to Open at least once
    tripTime,           \* time of the latest transition into Open
    \* the cache store's key rate_limit:<userID>:<action>, one (userID, action)
    rateKey,            \* [present, count, expires, ttl]
    \* one checkRateLimit call per element of Callers
    ratePc,             \* position of the call inside checkRateLimit
    rateResult,         \* what the call returned
    \* history of the current window of rateKey
    winAllowed,         \* calls that returned true since the key was created
    winAge,             \* ticks since the key was created, at most WindowTicks
    \* the subscriptions table, one row per user at most
    subs,
    \* the cache store's key usage:<userID>:<action>, one (userID, action)
    usageKey,           \* [present, count, expires, ttl]
    dayIncrs,           \* increments of the usage counter made on the current day
    \* the cache store's keys paywall:access:<userID>:<contentID>:<planID>
    accessCache,
    \* paywall requests the behaviour still accepts
    budget,
    \* one paywall request per element of Callers
    pwPc,               \* position of the request inside its handler
    pwReq,              \* the bound request body and the handler serving it
    pwSub,              \* what GetActiveSubscriptionByUserID returned
    pwAccess,           \* what checkSubscriptionAccess returned
    pwUsage,            \* what checkUsageLimits returned
    pwResp,             \* the response, status 0 while unanswered
    pwTrace,            \* the operations the request has completed, in order
    \* the webhook_events table, one row per event id at most
    webhookEvents,
    \* one webhook delivery per element of Deliveries
    whPc,               \* position of the delivery inside HandleWebhook
    whEvent,            \* the delivered request: event id, type, signature
    whResp,             \* HTTP status answered, 0 while unanswered
    \* detached processWebhookEvent goroutines
    handlers,           \* events handed to a goroutine that has not finished
    started,            \* number of goroutines started per event id
    \* the plans table, one row per plan id at most
    plans,
    nextPlan,           \* number of ids generateID has returned
    planWrites,         \* number of writes to the plans table
    \* the cache store's keys plan:<id> and plans:active
    planCache,
    activeCache,
    \* one plan or subscription request per element of Callers
    plPc,               \* position of the request inside its handler
    plReq,              \* the handler, the plan id, the name, the user
    plPlan,             \* the handler's plan
    plList,             \* the handler's list of active plans
    plResp,             \* the response, status 0 while unanswered
    \* one call of validatePlanRequest
    valReq,             \* its argument
    valErr              \* what it returned

paymentVars == <<state, failureCount, lastFailureTime, mu, muWait, now, pc, resp,
                 gateway, recorded, stored, tripped, tripTime>>
limiterVars == <<rateKey, ratePc, rateResult, winAllowed, winAge>>
paywallVars == <<subs, usageKey, dayIncrs, accessCache, budget, pwPc, pwReq, pwSub,
                 pwAccess, pwUsage, pwResp, pwTrace>>
webhookVars == <<webhookEvents, whPc, whEvent, whResp, handlers, started>>
planVars == <<plans, nextPlan, planWrites, planCache, activeCache, plPc, plReq,
              plPlan, plList, plResp>>
validationVars == <<valReq, valErr>>
breakerVars == <<state, failureCount, lastFailureTime, mu, muWait, pc, resp,
                 gateway, recorded, stored, tripped, tripTime>>

\* what the actions of one component leave alone
notPayment == <<limiterVars, paywallVars, webhookVars, planVars, validationVars>>
notLimiter == <<paymentVars, paywallVars, webhookVars, planVars, validationVars>>
notPaywall == <<breakerVars, webhookVars, planVars, validationVars>>
notWebhook == <<paymentVars, limiterVars, paywallVars, planVars, validationVars>>
notPlan == <<paymentVars, limiterVars, usageKey, dayIncrs, accessCache, pwPc, pwReq,
             pwSub, pwAccess, pwUsage, pwResp, pwTrace, webhookVars, validationVars>>
notValidation == <<paymentVars, limiterVars, paywallVars, webhookVars, planVars>>

vars == <<paymentVars, limiterVars, paywallVars, webhookVars, planVars, validationVars>>

StatusBadRequest == 400
StatusServiceUnavailable == 503
StatusInternalServerError == 500
StatusOK == 200
StatusTooManyRequests == 429
StatusForbidden == 403
StatusUnauthorized == 401

\* ------------------------------------------------------------------------
\* Circuit breaker
\* ------------------------------------------------------------------------

\* NewCircuitBreaker: state Closed, failureCount 0, zero lastFailureTime
NewCircuitBreaker ==
    /\ state = "Closed"
    /\ failureCount = 0
    /\ lastFailureTime = 0
    /\ mu = {}
    /\ muWait = {}

\* the recovery test that lets one more second pass
RecoveryElapsed_Late == now - lastFailureTime > RecoveryTimeout + 1

\* the recovery test with >= instead of >
RecoveryElapsed_AtTimeout == now - lastFailureTime >= RecoveryTimeout

\* time.Since(cb.lastFailureTime) > RecoveryTimeout seconds
RecoveryElapsed == now - lastFailureTime > RecoveryTimeout

\* RecordSuccess that closes the breaker without resetting the count
RecordSuccess_KeepsCount ==
    /\ mu = {}
    /\ state' = "Closed"
    /\ UNCHANGED <<failureCount, lastFailureTime, mu, tripped, tripTime>>

\* RecordSuccess, under the write lock
RecordSuccess ==
    /\ mu = {}
    /\ failureCount' = 0
    /\ state' = "Closed"
    /\ UNCHANGED <<lastFailureTime, mu, tripped, tripTime>>

\* RecordFailure that trips one failure late (> instead of >=)
RecordFailure_TripsLate ==
    /\ mu = {}
    /\ failureCount' = failureCount + 1
    /\ lastFailureTime' = now
    /\ state' = IF failureCount + 1 > FailureThreshold THEN "Open" ELSE state
    /\ tripped' = (tripped \/ state' = "Open")
    /\ tripTime' = IF state # "Open" /\ state' = "Open" THEN now ELSE tripTime
    /\ UNCHANGED mu

\* RecordFailure, under the write lock
RecordFailure ==
    /\ mu = {}
    /\ failureCount' = failureCount + 1
    /\ lastFailureTime' = now
    /\ state' = IF failureCount + 1 >= FailureThreshold THEN "Open" ELSE state
    /\ tripped' = (tripped \/ state' = "Open")
    /\ tripTime' = IF state # "Open" /\ state' = "Open" THEN now ELSE tripTime
    /\ UNCHANGED mu

\* ------------------------------------------------------------------------
\* ProcessPayment
\* ------------------------------------------------------------------------

\* a request arrives; ShouldBindJSON rejects an invalid body with 400
Bind(r) ==
    /\ pc[r] = "idle"
    /\ \E valid \in BOOLEAN :
          IF valid
          THEN /\ pc' = [pc EXCEPT ![r] = "CanExecute"]
               /\ UNCHANGED resp
          ELSE /\ pc' = [pc EXCEPT ![r] = "done"]
               /\ resp' = [resp EXCEPT ![r] = StatusBadRequest]
    /\ UNCHANGED <<state, failureCount, lastFailureTime, mu, muWait, now,
                   gateway, recorded, stored, tripped, tripTime>>
    /\ UNCHANGED notPayment

\* CanExecute: cb.mu.RLock(), which waits while a Lock call is waiting
CanExecuteRLock(r) ==
    /\ pc[r] = "CanExecute"
    /\ muWait = {}
    /\ mu' = mu \cup {r}
    /\ pc' = [pc EXCEPT ![r] = "switch"]
    /\ UNCHANGED <<state, failureCount, lastFailureTime, muWait, now, resp,
                   gateway, recorded, stored, tripped, tripTime>>
    /\ UNCHANGED notPayment

\* CanExecute whose refusal counts as a failure of the breaker
CanExecuteSwitch_DenyCounts(r) ==
    /\ pc[r] = "switch"
    /\ mu' = mu \ {r}
    /\ IF state = "Open"
       THEN IF RecoveryElapsed
            THEN /\ pc' = [pc EXCEPT ![r] = "Lock"]
                 /\ UNCHANGED <<resp, failureCount, lastFailureTime>>
            ELSE /\ pc' = [pc EXCEPT ![r] = "done"]
                 /\ resp' = [resp EXCEPT ![r] = StatusServiceUnavailable]
                 /\ failureCount' = failureCount + 1
                 /\ lastFailureTime' = now
       ELSE /\ pc' = [pc EXCEPT ![r] = "gateway"]
            /\ UNCHANGED <<resp, failureCount, lastFailureTime>>
    /\ UNCHANGED <<state, muWait, now, gateway, recorded, stored, tripped, tripTime>>
    /\ UNCHANGED notPayment

\* CanExecute: switch cb.state, holding the read lock.  Closed and HalfOpen
\* return true; Open returns false (ProcessPayment answers 503) unless the
\* recovery timeout has elapsed, and then the read lock is released to take
\* the write lock.
CanExecuteSwitch(r) ==
    /\ pc[r] = "switch"
    /\ mu' = mu \ {r}
    /\ IF state = "Open"
       THEN IF RecoveryElapsed
            THEN /\ pc' = [pc EXCEPT ![r] = "Lock"]
                 /\ UNCHANGED resp
            ELSE /\ pc' = [pc EXCEPT ![r] = "done"]
                 /\ resp' = [resp EXCEPT ![r] = StatusServiceUnavailable]
       ELSE /\ pc' = [pc EXCEPT ![r] = "gateway"]
            /\ UNCHANGED resp
    /\ UNCHANGED <<state, failureCount, lastFailureTime, muWait, now,
                   gateway, recorded, stored, tripped, tripTime>>
    /\ UNCHANGED notPayment

\* cb.mu.Lock() is called, by CanExecute, RecordSuccess or RecordFailure:
\* from now on the request waits for the write lock, and RLock calls wait
\* behind it
LockCall(r) ==
    /\ pc[r] \in {"Lock", "RecordSuccess", "RecordFailure"}
    /\ r \notin muWait
    /\ muWait' = muWait \cup {r}
    /\ UNCHANGED <<state, failureCount, lastFailureTime, mu, now, pc, resp,
                   gateway, recorded, stored, tripped, tripTime>>
    /\ UNCHANGED notPayment

\* CanExecute: the write lock is granted; cb.state = HalfOpen;
\* cb.mu.Unlock()
CanExecuteLock(r) ==
    /\ pc[r] = "Lock"
    /\ r \in muWait
    /\ mu = {}
    /\ muWait' = muWait \ {r}
    /\ state' = "HalfOpen"
    /\ pc' = [pc EXCEPT ![r] = "RLock"]
    /\ UNCHANGED <<failureCount, lastFailureTime, mu, now, resp,
                   gateway, recorded, stored, tripped, tripTime>>
    /\ UNCHANGED notPayment

\* CanExecute: cb.mu.RLock() after the write section
CanExecuteRLockAgain(r) ==
    /\ pc[r] = "RLock"
    /\ muWait = {}
    /\ mu' = mu \cup {r}
    /\ pc' = [pc EXCEPT ![r] = "return"]
    /\ UNCHANGED <<state, failureCount, lastFailureTime, muWait, now, resp,
                   gateway, recorded, stored, tripped, tripTime>>
    /\ UNCHANGED notPayment

\* CanExecute that returns true still holding the read lock
CanExecuteReturn_KeepsLock(r) ==
    /\ pc[r] = "return"
    /\ pc' = [pc EXCEPT ![r] = "gateway"]
    /\ UNCHANGED <<state, failureCount, lastFailureTime, mu, muWait, now, resp,
                   gateway, recorded, stored, tripped, tripTime>>
    /\ UNCHANGED notPayment

\* CanExecute: return true, and the deferred cb.mu.RUnlock()
CanExecuteReturn(r) ==
    /\ pc[r] = "return"
    /\ mu' = mu \ {r}
    /\ pc' = [pc EXCEPT ![r] = "gateway"]
    /\ UNCHANGED <<state, failureCount, lastFailureTime, muWait, now, resp,
                   gateway, recorded, stored, tripped, tripTime>>
    /\ UNCHANGED notPayment

\* processPaymentThroughGateway: succeeds or fails
Gateway(r) ==
    /\ pc[r] = "gateway"
    /\ \E ok \in BOOLEAN :
          /\ gateway' = [gateway EXCEPT ![r] = IF ok THEN "ok" ELSE "err"]
          /\ pc' = [pc EXCEPT ![r] = IF ok THEN "RecordSuccess" ELSE "RecordFailure"]
    /\ UNCHANGED <<state, failureCount, lastFailureTime, mu, muWait, now, resp,
                   recorded, stored, tripped, tripTime>>
    /\ UNCHANGED notPayment

\* gateway error answered without recording the failure on the breaker
GatewayError_NotRecorded(r) ==
    /\ pc[r] = "RecordFailure"
    /\ muWait' = muWait \ {r}
    /\ resp' = [resp EXCEPT ![r] = StatusInternalServerError]
    /\ pc' = [pc EXCEPT ![r] = "done"]
    /\ UNCHANGED <<state, failureCount, lastFailureTime, mu, now,
                   gateway, recorded, stored, tripped, tripTime>>
    /\ UNCHANGED notPayment

\* gateway error: RecordFailure once the write lock is granted, answer 500
GatewayError(r) ==
    /\ pc[r] = "RecordFailure"
    /\ r \in muWait
    /\ muWait' = muWait \ {r}
    /\ RecordFailure
    /\ recorded' = [recorded EXCEPT ![r] = Append(@, "failure")]
    /\ resp' = [resp EXCEPT ![r] = StatusInternalServerError]
    /\ pc' = [pc EXCEPT ![r] = "done"]
    /\ UNCHANGED <<now, gateway, stored>>
    /\ UNCHANGED notPayment

\* gateway success: RecordSuccess once the write lock is granted
GatewaySuccess(r) ==
    /\ pc[r] = "RecordSuccess"
    /\ r \in muWait
    /\ muWait' = muWait \ {r}
    /\ RecordSuccess
    /\ recorded' = [recorded EXCEPT ![r] = Append(@, "success")]
    /\ pc' = [pc EXCEPT ![r] = "storeTransaction"]
    /\ UNCHANGED <<now, resp, gateway, stored>>
    /\ UNCHANGED notPayment

\* a failed storeTransaction treated like a failed payment
StoreTransaction_FailsRequest(r) ==
    /\ pc[r] = "storeTransaction"
    /\ \E ok \in BOOLEAN :
          /\ stored' = [stored EXCEPT ![r] = IF ok THEN "ok" ELSE "err"]
          /\ IF ok
             THEN /\ resp' = [resp EXCEPT ![r] = StatusOK]
                  /\ UNCHANGED <<state, failureCount, lastFailureTime, mu, muWait,
                                 tripped, tripTime, recorded>>
             ELSE /\ resp' = [resp EXCEPT ![r] = StatusInternalServerError]
                  /\ RecordFailure
                  /\ UNCHANGED muWait
                  /\ recorded' = [recorded EXCEPT ![r] = Append(@, "failure")]
    /\ pc' = [pc EXCEPT ![r] = "done"]
    /\ UNCHANGED <<now, gateway>>
    /\ UNCHANGED notPayment

\* storeTransaction succeeds or fails; either way the response is 200
StoreTransaction(r) ==
    /\ pc[r] = "storeTransaction"
    /\ \E ok \in BOOLEAN :
          stored' = [stored EXCEPT ![r] = IF ok THEN "ok" ELSE "err"]
    /\ resp' = [resp EXCEPT ![r] = StatusOK]
    /\ pc' = [pc EXCEPT ![r] = "done"]
    /\ UNCHANGED <<state, failureCount, lastFailureTime, mu, muWait, now,
                   gateway, recorded, tripped, tripTime>>
    /\ UNCHANGED notPayment

\* the handler has returned; the slot serves the next request
Return(r) ==
    /\ pc[r] = "done"
    /\ pc' = [pc EXCEPT ![r] = "idle"]
    /\ resp' = [resp EXCEPT ![r] = 0]
    /\ gateway' = [gateway EXCEPT ![r] = "none"]
    /\ recorded' = [recorded EXCEPT ![r] = <<>>]
    /\ stored' = [stored EXCEPT ![r] = "none"]
    /\ UNCHANGED <<state, failureCount, lastFailureTime, mu, muWait, now,
                   tripped, tripTime>>
    /\ UNCHANGED notPayment

\* the clock advances
Tick ==
    /\ now < MaxTime
    /\ now' = now + 1
    /\ UNCHANGED <<state, failureCount, lastFailureTime, mu, muWait, pc, resp,
                   gateway, recorded, stored, tripped, tripTime>>
    /\ UNCHANGED notPayment


\* ------------------------------------------------------------------------
\* Rate limiter (checkRateLimit) over the cache store
\* ------------------------------------------------------------------------

\* limit of checkRateLimit: 10 requests per window
RateLimit == 10

NoKey == [present |-> FALSE, count |-> 0, expires |-> FALSE, ttl |-> 0]

\* cache.Set(key, "1", time.Minute): the key holds 1 and expires after a window
CacheSet == [present |-> TRUE, count |-> 1, expires |-> TRUE, ttl |-> WindowTicks]

\* cache.Incr(key): an existing key is incremented and keeps its expiry; a
\* missing key is created holding 1, with no expiry
CacheIncr(k) ==
    IF k.present
    THEN [k EXCEPT !.count = @ + 1]
    ELSE [present |-> TRUE, count |-> 1, expires |-> FALSE, ttl |-> 0]

\* one tick on a key: its time to live runs down and at 0 the key is gone
CacheAge(k) ==
    IF k.present /\ k.expires
    THEN IF k.ttl <= 1 THEN NoKey ELSE [k EXCEPT !.ttl = @ - 1]
    ELSE k

\* the call returns true: one more allowed call in the key's window, which
\* starts when the key is created
Allowed(c, created) ==
    /\ rateResult' = [rateResult EXCEPT ![c] = TRUE]
    /\ ratePc' = [ratePc EXCEPT ![c] = "done"]
    /\ winAllowed' = IF created THEN 1
                     ELSE IF winAllowed <= RateLimit THEN winAllowed + 1
                     ELSE winAllowed
    /\ winAge' = IF created THEN 0 ELSE winAge

\* checkRateLimit whose denial starts the key's window afresh
RateGet_DenialExtends(c) ==
    /\ ratePc[c] = "idle"
    /\ IF ~rateKey.present
       THEN /\ ratePc' = [ratePc EXCEPT ![c] = "Set"]
            /\ UNCHANGED <<rateResult, rateKey>>
       ELSE IF rateKey.count >= RateLimit
       THEN /\ ratePc' = [ratePc EXCEPT ![c] = "done"]
            /\ rateResult' = [rateResult EXCEPT ![c] = FALSE]
            /\ rateKey' = [rateKey EXCEPT !.expires = TRUE, !.ttl = WindowTicks]
       ELSE /\ ratePc' = [ratePc EXCEPT ![c] = "Incr"]
            /\ UNCHANGED <<rateResult, rateKey>>
    /\ UNCHANGED <<winAllowed, winAge>>
    /\ UNCHANGED notLimiter

\* checkRateLimit: cache.Get(key).  A missing key leads to Set, a count of
\* RateLimit or more returns false, a smaller count leads to Incr.
RateGet(c) ==
    /\ ratePc[c] = "idle"
    /\ IF ~rateKey.present
       THEN /\ ratePc' = [ratePc EXCEPT ![c] = "Set"]
            /\ UNCHANGED rateResult
       ELSE IF rateKey.count >= RateLimit
       THEN /\ ratePc' = [ratePc EXCEPT ![c] = "done"]
            /\ rateResult' = [rateResult EXCEPT ![c] = FALSE]
       ELSE /\ ratePc' = [ratePc EXCEPT ![c] = "Incr"]
            /\ UNCHANGED rateResult
    /\ UNCHANGED <<rateKey, winAllowed, winAge>>
    /\ UNCHANGED notLimiter

\* checkRateLimit called while no other call is in progress
RateGetAlone(c) ==
    /\ \A d \in Callers : ratePc[d] \in {"idle", "done"}
    /\ RateGet(c)

\* checkRateLimit: the key was missing: cache.Set(key, "1", time.Minute), return true
RateSet(c) ==
    /\ ratePc[c] = "Set"
    /\ rateKey' = CacheSet
    /\ Allowed(c, ~rateKey.present)
    /\ UNCHANGED notLimiter

\* checkRateLimit: the count was below the limit: cache.Incr(key), return true
RateIncr(c) ==
    /\ ratePc[c] = "Incr"
    /\ rateKey' = CacheIncr(rateKey)
    /\ Allowed(c, ~rateKey.present)
    /\ UNCHANGED notLimiter

\* checkRateLimit has returned; the slot serves the next call
RateReturn(c) ==
    /\ ratePc[c] = "done"
    /\ ratePc' = [ratePc EXCEPT ![c] = "idle"]
    /\ UNCHANGED <<rateKey, rateResult, winAllowed, winAge>>
    /\ UNCHANGED notLimiter

\* the cache store's clock advances by one tick
Expire ==
    /\ rateKey' = CacheAge(rateKey)
    /\ winAge' = IF winAge < WindowTicks THEN winAge + 1 ELSE winAge
    /\ winAllowed' = IF rateKey'.present THEN winAllowed ELSE 0
    /\ <<rateKey', winAge'>> # <<rateKey, winAge>>
    /\ UNCHANGED <<ratePc, rateResult>>
    /\ UNCHANGED notLimiter

\* ------------------------------------------------------------------------
\* Subscription check (checkSubscriptionAccess) over the subscriptions table
\* ------------------------------------------------------------------------

\* user_id values of paywall requests; the body is a JSON string, so an id
\* may contain ':'
UserIds == {"u", "u:c"}

NoSub == [exists |-> FALSE, status |-> "", planID |-> "", endDate |-> 0]
ActiveSub == [exists |-> TRUE, status |-> "active", planID |-> "p", endDate |-> SubEnd]
CancelledSub == [exists |-> TRUE, status |-> "cancelled", planID |-> "p", endDate |-> SubEnd]

\* GetActiveSubscriptionByUserID: the row of the user with status = 'active'
\* AND end_date > NOW(), or the Scan error sql.ErrNoRows
GetActiveSubscriptionByUserID(userID) ==
    IF /\ subs[userID].exists
       /\ subs[userID].status = "active"
       /\ subs[userID].endDate > now
    THEN [err |-> "nil", sub |-> subs[userID]]
    ELSE [err |-> "ErrNoRows", sub |-> NoSub]

\* what the lookup can return: the query's result, or the error of a failed
\* query (connection lost, timeout)
LookupOutcomes(userID) ==
    {GetActiveSubscriptionByUserID(userID), [err |-> "failure", sub |-> NoSub]}

Denial(why) ==
    [hasAccess |-> FALSE, reason |-> why, expiresAt |-> 0, err |-> "nil"]

\* checkSubscriptionAccess that does not compare the plan
checkSubscriptionAccess_IgnoresPlan(got, planID) ==
    IF got.err # "nil" THEN Denial("No active subscription found")
    ELSE IF got.sub.status # "active" THEN Denial("Subscription is not active")
    ELSE IF now > got.sub.endDate THEN Denial("Subscription has expired")
    ELSE [hasAccess |-> TRUE, reason |-> "Valid subscription",
          expiresAt |-> got.sub.endDate, err |-> "nil"]

\* checkSubscriptionAccess, after the lookup returned got: (hasAccess, reason,
\* expiresAt, err).  err is nil on every path.
checkSubscriptionAccess(got, planID) ==
    IF got.err # "nil" THEN Denial("No active subscription found")
    ELSE IF got.sub.status # "active" THEN Denial("Subscription is not active")
    ELSE IF now > got.sub.endDate THEN Denial("Subscription has expired")
    ELSE IF planID # "" /\ got.sub.planID # planID THEN Denial("Plan mismatch")
    ELSE [hasAccess |-> TRUE, reason |-> "Valid subscription",
          expiresAt |-> got.sub.endDate, err |-> "nil"]

\* ------------------------------------------------------------------------
\* Usage counter (checkUsageLimits, incrementUsage) over the cache store
\* ------------------------------------------------------------------------

\* limit of checkUsageLimits: 100 per day
UsageLimit == 100

NoUsage == [current |-> 0, limit |-> 0, remaining |-> 0]

\* checkUsageLimits: cache.Get(key); a missing key reads as no usage
checkUsageLimits(k) ==
    IF ~k.present
    THEN [current |-> 0, limit |-> UsageLimit, remaining |-> UsageLimit]
    ELSE [current |-> k.count, limit |-> UsageLimit,
          remaining |-> IF UsageLimit - k.count < 0 THEN 0 ELSE UsageLimit - k.count]

\* 23:59:59 of the current day
EndOfDay == (now \div DayTicks) * DayTicks + (DayTicks - 1)

\* cache.Expire(key, ttl): an existing key gets the time to live, and a time
\* to live that is not positive deletes it; a missing key is left missing
CacheExpire(k, ttl) ==
    IF ~k.present THEN k
    ELSE IF ttl <= 0 THEN NoKey
    ELSE [k EXCEPT !.expires = TRUE, !.ttl = ttl]

\* a counter that is Headroom below the daily limit as the day starts
NearQuota ==
    [present |-> TRUE, count |-> UsageLimit - Headroom, expires |-> TRUE,
     ttl |-> DayTicks - 1]

\* ------------------------------------------------------------------------
\* Verdict cache of CheckAccess
\* ------------------------------------------------------------------------

\* bodies of CheckAccess requests
CheckRequests ==
    { [handler |-> "CheckAccess", userID |-> "u", contentID |-> "c:c", planID |-> "p"],
      [handler |-> "CheckAccess", userID |-> "u:c", contentID |-> "c", planID |-> "p"],
      [handler |-> "CheckAccess", userID |-> "u", contentID |-> "c", planID |-> "q"] }

\* body of the EnforcePaywall requests, all for one (userID, action)
EnforceRequest ==
    [handler |-> "EnforcePaywall", userID |-> "u", contentID |-> "c", planID |-> ""]

NoReq == [handler |-> "", userID |-> "", contentID |-> "", planID |-> ""]

\* fmt.Sprintf("paywall:access:%s:%s:%s", req.UserID, req.ContentID, req.PlanID)
AccessKey(req) ==
    "paywall:access:" \o req.userID \o ":" \o req.contentID \o ":" \o req.planID

AccessKeys == {AccessKey(req) : req \in CheckRequests}

NoResp ==
    [status |-> 0, verdict |-> "none", error |-> "", reason |-> "",
     expiresAt |-> 0, usage |-> NoUsage]

\* a missing key; for records the request whose check the value came from
NoEntry ==
    [present |-> FALSE, ttl |-> 0, value |-> NoResp, for |-> NoReq]

\* one tick on a cached verdict
AccessAge(e) ==
    IF e.present
    THEN IF e.ttl <= 1 THEN NoEntry ELSE [e EXCEPT !.ttl = @ - 1]
    ELSE e

\* PaywallCheckResponse{HasAccess, Reason, ExpiresAt} answered with 200
CheckResponse(v) ==
    [NoResp EXCEPT !.status = StatusOK,
                   !.verdict = IF v.hasAccess THEN "positive" ELSE "negative",
                   !.reason = v.reason,
                   !.expiresAt = v.expiresAt]

NoLookup == [err |-> "", sub |-> NoSub]
NoAccess == [hasAccess |-> FALSE, reason |-> "", expiresAt |-> 0, err |-> ""]

\* ------------------------------------------------------------------------
\* CheckAccess and EnforcePaywall
\* ------------------------------------------------------------------------

\* no other paywall request is in progress
PaywallAlone == \A d \in Callers : pwPc[d] = "idle"

\* c.JSON(status, body) and return: the handler's local variables are gone
Answer(q, response) ==
    /\ pwPc' = [pwPc EXCEPT ![q] = "done"]
    /\ pwResp' = [pwResp EXCEPT ![q] = response]
    /\ pwSub' = [pwSub EXCEPT ![q] = NoLookup]
    /\ pwAccess' = [pwAccess EXCEPT ![q] = NoAccess]
    /\ pwUsage' = [pwUsage EXCEPT ![q] = NoUsage]

\* gin.H{"error": message} with an error status
ErrorResponse(status, message) ==
    [NoResp EXCEPT !.status = status, !.error = message]

\* EnforcePaywall that looks the subscription up before it asks the rate limiter
EnforceBind_SubscriptionFirst(q) ==
    /\ pwPc[q] = "idle"
    /\ budget > 0
    /\ budget' = budget - 1
    /\ \E valid \in BOOLEAN :
          IF valid
          THEN /\ pwPc' = [pwPc EXCEPT ![q] = "lookup"]
               /\ pwReq' = [pwReq EXCEPT ![q] = EnforceRequest]
               /\ UNCHANGED <<pwResp, pwSub, pwAccess, pwUsage>>
          ELSE /\ Answer(q, ErrorResponse(StatusBadRequest, "invalid body"))
               /\ UNCHANGED pwReq
    /\ UNCHANGED <<subs, usageKey, dayIncrs, accessCache, pwTrace>>
    /\ UNCHANGED <<now, limiterVars, notPaywall>>

\* EnforcePaywall: a request arrives; ShouldBindJSON rejects an invalid body
EnforceBind(q) ==
    /\ pwPc[q] = "idle"
    /\ budget > 0
    /\ budget' = budget - 1
    /\ \E valid \in BOOLEAN :
          IF valid
          THEN /\ pwPc' = [pwPc EXCEPT ![q] = "checkRateLimit"]
               /\ pwReq' = [pwReq EXCEPT ![q] = EnforceRequest]
               /\ UNCHANGED <<pwResp, pwSub, pwAccess, pwUsage>>
          ELSE /\ Answer(q, ErrorResponse(StatusBadRequest, "invalid body"))
               /\ UNCHANGED pwReq
    /\ UNCHANGED <<subs, usageKey, dayIncrs, accessCache, pwTrace>>
    /\ UNCHANGED <<now, limiterVars, notPaywall>>

\* EnforcePaywall called while no other paywall request is in progress
EnforceBindAlone(q) ==
    /\ PaywallAlone
    /\ EnforceBind(q)

\* EnforcePaywall: checkRateLimit reads the counter
EnforceCheckRateLimit(q) ==
    /\ pwPc[q] = "checkRateLimit"
    /\ RateGet(q)

\* EnforcePaywall: checkRateLimit has returned; false is answered with 429
EnforceRateLimited(q) ==
    /\ pwPc[q] = "checkRateLimit"
    /\ ratePc[q] = "done"
    /\ ratePc' = [ratePc EXCEPT ![q] = "idle"]
    /\ pwTrace' = [pwTrace EXCEPT ![q] = Append(@, "checkRateLimit")]
    /\ IF rateResult[q]
       THEN /\ pwPc' = [pwPc EXCEPT ![q] = "lookup"]
            /\ UNCHANGED <<pwResp, pwSub, pwAccess, pwUsage>>
       ELSE Answer(q, ErrorResponse(StatusTooManyRequests, "Rate limit exceeded"))
    /\ UNCHANGED <<subs, usageKey, dayIncrs, accessCache, budget, pwReq>>
    /\ UNCHANGED <<now, rateKey, rateResult, winAllowed, winAge, notPaywall>>

\* checkSubscriptionAccess: the lookup of the user's active subscription
SubscriptionLookup(q) ==
    /\ pwPc[q] = "lookup"
    /\ \E got \in LookupOutcomes(pwReq[q].userID) :
          pwSub' = [pwSub EXCEPT ![q] = got]
    /\ pwPc' = [pwPc EXCEPT ![q] = "checkSubscriptionAccess"]
    /\ pwTrace' = [pwTrace EXCEPT ![q] = Append(@, "GetActiveSubscriptionByUserID")]
    /\ UNCHANGED <<subs, usageKey, dayIncrs, accessCache, budget, pwReq, pwAccess, pwUsage, pwResp>>
    /\ UNCHANGED <<now, limiterVars, notPaywall>>

\* EnforcePaywall that turns away a user whose usage is exhausted
EnforceCheckSubscription_DeniesExhausted(q) ==
    /\ pwPc[q] = "checkSubscriptionAccess"
    /\ pwReq[q].handler = "EnforcePaywall"
    /\ LET v == checkSubscriptionAccess(pwSub[q], "") IN
          IF v.err # "nil"
          THEN Answer(q, ErrorResponse(StatusInternalServerError, "Internal server error"))
          ELSE IF ~v.hasAccess
          THEN Answer(q, [ErrorResponse(StatusForbidden, "Access denied")
                             EXCEPT !.reason = v.reason])
          ELSE IF checkUsageLimits(usageKey).remaining = 0
          THEN Answer(q, [ErrorResponse(StatusForbidden, "Access denied")
                             EXCEPT !.reason = "Usage limit exceeded"])
          ELSE /\ pwPc' = [pwPc EXCEPT ![q] = "checkUsageLimits"]
               /\ pwAccess' = [pwAccess EXCEPT ![q] = v]
               /\ UNCHANGED <<pwResp, pwSub, pwUsage>>
    /\ pwTrace' = [pwTrace EXCEPT ![q] = Append(@, "checkSubscriptionAccess")]
    /\ UNCHANGED <<subs, usageKey, dayIncrs, accessCache, budget, pwReq>>
    /\ UNCHANGED <<now, limiterVars, notPaywall>>

\* EnforcePaywall: checkSubscriptionAccess(userID, "") decides; an error is
\* answered with 500, no access with 403 and the reason
EnforceCheckSubscription(q) ==
    /\ pwPc[q] = "checkSubscriptionAccess"
    /\ pwReq[q].handler = "EnforcePaywall"
    /\ LET v == checkSubscriptionAccess(pwSub[q], "") IN
          IF v.err # "nil"
          THEN Answer(q, ErrorResponse(StatusInternalServerError, "Internal server error"))
          ELSE IF ~v.hasAccess
          THEN Answer(q, [ErrorResponse(StatusForbidden, "Access denied")
                             EXCEPT !.reason = v.reason])
          ELSE /\ pwPc' = [pwPc EXCEPT ![q] = "checkUsageLimits"]
               /\ pwAccess' = [pwAccess EXCEPT ![q] = v]
               /\ UNCHANGED <<pwResp, pwSub, pwUsage>>
    /\ pwTrace' = [pwTrace EXCEPT ![q] = Append(@, "checkSubscriptionAccess")]
    /\ UNCHANGED <<subs, usageKey, dayIncrs, accessCache, budget, pwReq>>
    /\ UNCHANGED <<now, limiterVars, notPaywall>>

\* EnforcePaywall: checkUsageLimits reads the usage counter
EnforceCheckUsageLimits(q) ==
    /\ pwPc[q] = "checkUsageLimits"
    /\ pwUsage' = [pwUsage EXCEPT ![q] = checkUsageLimits(usageKey)]
    /\ pwPc' = [pwPc EXCEPT ![q] = "Incr"]
    /\ pwTrace' = [pwTrace EXCEPT ![q] = Append(@, "checkUsageLimits")]
    /\ UNCHANGED <<subs, usageKey, dayIncrs, accessCache, budget, pwReq, pwSub, pwAccess, pwResp>>
    /\ UNCHANGED <<now, limiterVars, notPaywall>>

\* EnforcePaywall: incrementUsage, cache.Incr(key); the trace tells an Incr
\* that returned 1, having created the key, from one that found it
EnforceIncr(q) ==
    /\ pwPc[q] = "Incr"
    /\ usageKey' = CacheIncr(usageKey)
    /\ dayIncrs' = dayIncrs + 1
    /\ pwPc' = [pwPc EXCEPT ![q] = "Expire"]
    /\ pwTrace' = [pwTrace EXCEPT ![q] =
                      Append(@, IF usageKey.present THEN "Incr" ELSE "Incr=1")]
    /\ UNCHANGED <<subs, accessCache, budget, pwReq, pwSub, pwAccess, pwUsage, pwResp>>
    /\ UNCHANGED <<now, limiterVars, notPaywall>>

\* PaywallEnforceResponse{Allowed: true, ExpiresAt, Usage} answered with 200
EnforceResponse(expiresAt, usage) ==
    [NoResp EXCEPT !.status = StatusOK, !.verdict = "positive",
                   !.expiresAt = expiresAt, !.usage = usage]

\* the Incr of request q returned 1
CreatedKey(q) == \E i \in 1..Len(pwTrace[q]) : pwTrace[q][i] = "Incr=1"

\* EnforcePaywall that sets the expiry only when its Incr created the key
EnforceExpire_OnlyWhenCreated(q) ==
    /\ pwPc[q] = "Expire"
    /\ usageKey' = IF CreatedKey(q) THEN CacheExpire(usageKey, EndOfDay - now)
                   ELSE usageKey
    /\ Answer(q, EnforceResponse(pwAccess[q].expiresAt, pwUsage[q]))
    /\ pwTrace' = [pwTrace EXCEPT ![q] = Append(@, "Expire")]
    /\ UNCHANGED <<subs, dayIncrs, accessCache, budget, pwReq>>
    /\ UNCHANGED <<now, limiterVars, notPaywall>>

\* EnforcePaywall that answers with the counter as it is after the increment
EnforceExpire_ReportsAfter(q) ==
    /\ pwPc[q] = "Expire"
    /\ usageKey' = CacheExpire(usageKey, EndOfDay - now)
    /\ Answer(q, EnforceResponse(pwAccess[q].expiresAt, checkUsageLimits(usageKey)))
    /\ pwTrace' = [pwTrace EXCEPT ![q] = Append(@, "Expire")]
    /\ UNCHANGED <<subs, dayIncrs, accessCache, budget, pwReq>>
    /\ UNCHANGED <<now, limiterVars, notPaywall>>

\* EnforcePaywall: incrementUsage, cache.Expire(key, endOfDay.Sub(now)); then
\* 200 with Allowed, ExpiresAt and the usage read by checkUsageLimits
EnforceExpire(q) ==
    /\ pwPc[q] = "Expire"
    /\ usageKey' = CacheExpire(usageKey, EndOfDay - now)
    /\ Answer(q, EnforceResponse(pwAccess[q].expiresAt, pwUsage[q]))
    /\ pwTrace' = [pwTrace EXCEPT ![q] = Append(@, "Expire")]
    /\ UNCHANGED <<subs, dayIncrs, accessCache, budget, pwReq>>
    /\ UNCHANGED <<now, limiterVars, notPaywall>>

\* CheckAccess: a request arrives; ShouldBindJSON rejects an invalid body
CheckAccessBind(q) ==
    /\ pwPc[q] = "idle"
    /\ budget > 0
    /\ budget' = budget - 1
    /\ \/ \E req \in CheckRequests :
             /\ pwPc' = [pwPc EXCEPT ![q] = "getCachedAccess"]
             /\ pwReq' = [pwReq EXCEPT ![q] = req]
             /\ UNCHANGED <<pwResp, pwSub, pwAccess, pwUsage>>
       \/ /\ Answer(q, ErrorResponse(StatusBadRequest, "invalid body"))
          /\ UNCHANGED pwReq
    /\ UNCHANGED <<subs, usageKey, dayIncrs, accessCache, pwTrace>>
    /\ UNCHANGED <<now, limiterVars, notPaywall>>

\* CheckAccess: getCachedAccess(cacheKey); a hit is answered with 200
CheckAccessGetCached(q) ==
    /\ pwPc[q] = "getCachedAccess"
    /\ LET e == accessCache[AccessKey(pwReq[q])] IN
          IF e.present
          THEN Answer(q, e.value)
          ELSE /\ pwPc' = [pwPc EXCEPT ![q] = "lookup"]
               /\ UNCHANGED <<pwResp, pwSub, pwAccess, pwUsage>>
    /\ pwTrace' = [pwTrace EXCEPT ![q] = Append(@, "getCachedAccess")]
    /\ UNCHANGED <<subs, usageKey, dayIncrs, accessCache, budget, pwReq>>
    /\ UNCHANGED <<now, limiterVars, notPaywall>>

\* CheckAccess: checkSubscriptionAccess(userID, planID) decides; an error is
\* answered with 500
CheckAccessCheckSubscription(q) ==
    /\ pwPc[q] = "checkSubscriptionAccess"
    /\ pwReq[q].handler = "CheckAccess"
    /\ LET v == checkSubscriptionAccess(pwSub[q], pwReq[q].planID) IN
          IF v.err # "nil"
          THEN Answer(q, ErrorResponse(StatusInternalServerError, "Internal server error"))
          ELSE /\ pwPc' = [pwPc EXCEPT ![q] = "cacheAccessResult"]
               /\ pwAccess' = [pwAccess EXCEPT ![q] = v]
               /\ UNCHANGED <<pwResp, pwSub, pwUsage>>
    /\ pwTrace' = [pwTrace EXCEPT ![q] = Append(@, "checkSubscriptionAccess")]
    /\ UNCHANGED <<subs, usageKey, dayIncrs, accessCache, budget, pwReq>>
    /\ UNCHANGED <<now, limiterVars, notPaywall>>

\* CheckAccess: cacheAccessResult, cache.Set(key, data, 5*time.Minute); then 200
CheckAccessCache(q) ==
    /\ pwPc[q] = "cacheAccessResult"
    /\ accessCache' = [accessCache EXCEPT ![AccessKey(pwReq[q])] =
                          [present |-> TRUE, ttl |-> AccessTicks,
                           value |-> CheckResponse(pwAccess[q]),
                           for |-> pwReq[q]]]
    /\ Answer(q, CheckResponse(pwAccess[q]))
    /\ pwTrace' = [pwTrace EXCEPT ![q] = Append(@, "cacheAccessResult")]
    /\ UNCHANGED <<subs, usageKey, dayIncrs, budget, pwReq>>
    /\ UNCHANGED <<now, limiterVars, notPaywall>>

\* the handler has returned; the slot serves the next request
PaywallReturn(q) ==
    /\ pwPc[q] = "done"
    /\ pwPc' = [pwPc EXCEPT ![q] = "idle"]
    /\ pwReq' = [pwReq EXCEPT ![q] = NoReq]
    /\ pwResp' = [pwResp EXCEPT ![q] = NoResp]
    /\ pwTrace' = [pwTrace EXCEPT ![q] = <<>>]
    /\ UNCHANGED <<subs, usageKey, dayIncrs, accessCache, budget, pwSub, pwAccess, pwUsage>>
    /\ UNCHANGED <<now, limiterVars, notPaywall>>

\* one tick of the application clock and of the cache store's clock
PaywallTick ==
    /\ now < PaywallHorizon
    /\ now' = now + 1
    /\ rateKey' = CacheAge(rateKey)
    /\ winAge' = IF winAge < WindowTicks THEN winAge + 1 ELSE winAge
    /\ winAllowed' = IF rateKey'.present THEN winAllowed ELSE 0
    /\ usageKey' = CacheAge(usageKey)
    /\ dayIncrs' = IF (now + 1) \div DayTicks = now \div DayTicks THEN dayIncrs ELSE 0
    /\ accessCache' = [k \in AccessKeys |-> AccessAge(accessCache[k])]
    /\ UNCHANGED <<ratePc, rateResult>>
    /\ UNCHANGED <<subs, budget, pwPc, pwReq, pwSub, pwAccess, pwUsage, pwResp, pwTrace>>
    /\ UNCHANGED notPaywall

\* ------------------------------------------------------------------------
\* Webhook ingestor (HandleWebhook) and its detached handler
\* ------------------------------------------------------------------------

Deliveries == 1..MaxDeliveries

EventIds == {"evt_1", "evt_2"}

\* the types processWebhookEvent switches on
KnownTypes ==
    {"payment_intent.succeeded", "payment_intent.payment_failed",
     "invoice.payment_succeeded"}

\* the types of the delivered events: one the switch knows, one it does not
EventTypes == {"payment_intent.succeeded", "customer.created"}

\* a delivered request: the event of its body and whether its signature is
\* the gateway's
WebhookRequests == [id : EventIds, type : EventTypes, signed : BOOLEAN]

NoDelivery == [id |-> "", type |-> "", signed |-> FALSE]
NoRow == [present |-> FALSE, type |-> "", processed |-> FALSE]

\* verifyWebhookSignature: returns true for every request
verifyWebhookSignature(req) == TRUE

\* a delivery arrives
WebhookReceive(d) ==
    /\ whPc[d] = "idle"
    /\ \E req \in WebhookRequests : whEvent' = [whEvent EXCEPT ![d] = req]
    /\ whPc' = [whPc EXCEPT ![d] = "verifyWebhookSignature"]
    /\ UNCHANGED <<webhookEvents, whResp, handlers, started>>
    /\ UNCHANGED notWebhook

\* HandleWebhook: a request that fails verifyWebhookSignature is answered 401
WebhookVerify(d) ==
    /\ whPc[d] = "verifyWebhookSignature"
    /\ IF ~verifyWebhookSignature(whEvent[d])
       THEN /\ whPc' = [whPc EXCEPT ![d] = "done"]
            /\ whResp' = [whResp EXCEPT ![d] = StatusUnauthorized]
       ELSE /\ whPc' = [whPc EXCEPT ![d] = "ShouldBindJSON"]
            /\ UNCHANGED whResp
    /\ UNCHANGED <<webhookEvents, whEvent, handlers, started>>
    /\ UNCHANGED notWebhook

\* HandleWebhook: ShouldBindJSON rejects an invalid body with 400
WebhookBind(d) ==
    /\ whPc[d] = "ShouldBindJSON"
    /\ \E valid \in BOOLEAN :
          IF valid
          THEN /\ whPc' = [whPc EXCEPT ![d] = "storeWebhookEvent"]
               /\ UNCHANGED whResp
          ELSE /\ whPc' = [whPc EXCEPT ![d] = "done"]
               /\ whResp' = [whResp EXCEPT ![d] = StatusBadRequest]
    /\ UNCHANGED <<webhookEvents, whEvent, handlers, started>>
    /\ UNCHANGED notWebhook

\* HandleWebhook that only logs a failed storeWebhookEvent and goes on
WebhookStore_SwallowsFailure(d) ==
    /\ whPc[d] = "storeWebhookEvent"
    /\ \E ok \in BOOLEAN :
          webhookEvents' = IF ok /\ ~webhookEvents[whEvent[d].id].present
                           THEN [webhookEvents EXCEPT ![whEvent[d].id] =
                                    [present |-> TRUE, type |-> whEvent[d].type,
                                     processed |-> FALSE]]
                           ELSE webhookEvents
    /\ whPc' = [whPc EXCEPT ![d] = "go"]
    /\ UNCHANGED <<whEvent, whResp, handlers, started>>
    /\ UNCHANGED notWebhook

\* HandleWebhook whose insert replaces the row of an id already stored
WebhookStore_Upserts(d) ==
    /\ whPc[d] = "storeWebhookEvent"
    /\ \E ok \in BOOLEAN :
          IF ok
          THEN /\ webhookEvents' = [webhookEvents EXCEPT ![whEvent[d].id] =
                                       [present |-> TRUE, type |-> whEvent[d].type,
                                        processed |-> FALSE]]
               /\ whPc' = [whPc EXCEPT ![d] = "go"]
               /\ UNCHANGED whResp
          ELSE /\ whPc' = [whPc EXCEPT ![d] = "done"]
               /\ whResp' = [whResp EXCEPT ![d] = StatusInternalServerError]
               /\ UNCHANGED webhookEvents
    /\ UNCHANGED <<whEvent, handlers, started>>
    /\ UNCHANGED notWebhook

\* HandleWebhook: storeWebhookEvent inserts the row with processed = false; the
\* insert fails on an id already stored (primary key) or when the store
\* fails, and that is answered with 500
WebhookStore(d) ==
    /\ whPc[d] = "storeWebhookEvent"
    /\ \E ok \in BOOLEAN :
          IF ok /\ ~webhookEvents[whEvent[d].id].present
          THEN /\ webhookEvents' = [webhookEvents EXCEPT ![whEvent[d].id] =
                                       [present |-> TRUE, type |-> whEvent[d].type,
                                        processed |-> FALSE]]
               /\ whPc' = [whPc EXCEPT ![d] = "go"]
               /\ UNCHANGED whResp
          ELSE /\ whPc' = [whPc EXCEPT ![d] = "done"]
               /\ whResp' = [whResp EXCEPT ![d] = StatusInternalServerError]
               /\ UNCHANGED webhookEvents
    /\ UNCHANGED <<whEvent, handlers, started>>
    /\ UNCHANGED notWebhook

\* HandleWebhook: go s.processWebhookEvent(context.Background(), event)
WebhookGo(d) ==
    /\ whPc[d] = "go"
    /\ handlers' = [handlers EXCEPT ![whEvent[d].id] = "processWebhookEvent"]
    /\ started' = [started EXCEPT ![whEvent[d].id] = @ + 1]
    /\ whPc' = [whPc EXCEPT ![d] = "ack"]
    /\ UNCHANGED <<webhookEvents, whEvent, whResp>>
    /\ UNCHANGED notWebhook

\* HandleWebhook: 200 "received"
WebhookAck(d) ==
    /\ whPc[d] = "ack"
    /\ whResp' = [whResp EXCEPT ![d] = StatusOK]
    /\ whPc' = [whPc EXCEPT ![d] = "done"]
    /\ UNCHANGED <<webhookEvents, whEvent, handlers, started>>
    /\ UNCHANGED notWebhook

\* HandleWebhook has returned; the slot serves the next delivery
WebhookReturn(d) ==
    /\ whPc[d] = "done"
    /\ whPc' = [whPc EXCEPT ![d] = "idle"]
    /\ whEvent' = [whEvent EXCEPT ![d] = NoDelivery]
    /\ whResp' = [whResp EXCEPT ![d] = 0]
    /\ UNCHANGED <<webhookEvents, handlers, started>>
    /\ UNCHANGED notWebhook

\* processWebhookEvent: the switch on event.Type; handlePaymentSuccess,
\* handlePaymentFailure, handleInvoicePayment and the default case only log
ProcessWebhookEvent(id) ==
    /\ handlers[id] = "processWebhookEvent"
    /\ handlers' = [handlers EXCEPT ![id] = "markWebhookProcessed"]
    /\ UNCHANGED <<webhookEvents, whPc, whEvent, whResp, started>>
    /\ UNCHANGED notWebhook

\* processWebhookEvent: markWebhookProcessed updates the row unless the store
\* fails; its error is dropped and the goroutine ends
MarkWebhookProcessed(id) ==
    /\ handlers[id] = "markWebhookProcessed"
    /\ \E ok \in BOOLEAN :
          webhookEvents' = IF ok /\ webhookEvents[id].present
                           THEN [webhookEvents EXCEPT ![id].processed = TRUE]
                           ELSE webhookEvents
    /\ handlers' = [handlers EXCEPT ![id] = "none"]
    /\ UNCHANGED <<whPc, whEvent, whResp, started>>
    /\ UNCHANGED notWebhook

\* ------------------------------------------------------------------------
\* Plan request validation (validatePlanRequest)
\* ------------------------------------------------------------------------

\* a *int field of the request: nil, or a pointer to val
Absent == [set |-> FALSE, val |-> 0]

\* pointer to n
Ptr(n) == [set |-> TRUE, val |-> n]

\* the oneof list of CreatePlanRequest.BillingCycle
BillingCycles == {"monthly", "yearly", "weekly", "daily"}

NoError == [field |-> "", tag |-> ""]


\* validator.Struct(req): the failing tag of every field, in the order of
\* the struct's fields.  A currency is its sequence of characters.  A nil
\* usage limit is skipped by omitempty; a pointer is validated by min=0.
FieldErrors(req) ==
    << [field |-> "Name",
        tag |-> IF req.name = "" THEN "required" ELSE ""],
       [field |-> "Price",
        tag |-> IF req.price = 0 THEN "required"
                ELSE IF req.price < 0 THEN "min" ELSE ""],
       [field |-> "Currency",
        tag |-> IF req.currency = <<>> THEN "required"
                ELSE IF Len(req.currency) # 3 THEN "len" ELSE ""],
       [field |-> "BillingCycle",
        tag |-> IF req.billingCycle = "" THEN "required"
                ELSE IF req.billingCycle \notin BillingCycles THEN "oneof" ELSE ""],
       [field |-> "MaxUsagePerDay",
        tag |-> IF req.maxUsagePerDay.set /\ req.maxUsagePerDay.val < 0
                THEN "min" ELSE ""],
       [field |-> "MaxUsagePerMonth",
        tag |-> IF req.maxUsagePerMonth.set /\ req.maxUsagePerMonth.val < 0
                THEN "min" ELSE ""] >>

\* validatePlanRequest: nil, or the error built from errorMessages[0]
validatePlanRequest(req) ==
    LET errs == SelectSeq(FieldErrors(req), LAMBDA e : e.tag # "")
    IN  IF errs = <<>> THEN NoError ELSE errs[1]

\* the call has not been made
NoCall == [field |-> "", tag |-> "pending"]

\* validatePlanRequest(valReq) is called
ValidatePlanRequest ==
    /\ valErr = NoCall
    /\ valErr' = validatePlanRequest(valReq)
    /\ UNCHANGED valReq
    /\ UNCHANGED notValidation

\* ------------------------------------------------------------------------
\* Plan service (CreatePlan, GetPlan, UpdatePlan, DeletePlan, GetActivePlans)
\* and CreateSubscription over the plans and subscriptions tables
\* ------------------------------------------------------------------------

\* id of the plan the table starts with, and the ids generateID returns, in
\* order: uuid.New never repeats an id
SeedPlan == "p"
NewIds == <<"p2", "p3", "p4", "p5">>
PlanIds == {SeedPlan} \cup {NewIds[i] : i \in 1..MaxNewPlans}

PlanNames == {"Basic", "Pro"}

\* a missing row or key; rev stands for updated_at and the other fields an
\* update changes
NoPlan == [exists |-> FALSE, name |-> "", rev |-> 0]

\* the key plans:active is missing
NoList == [present |-> FALSE, ids |-> {}]

\* bodies of CreatePlan requests: one per name, and one without a name
CreateBody(n) ==
    [name |-> n, price |-> 1, currency |-> <<"U", "S", "D">>,
     billingCycle |-> "monthly", maxUsagePerDay |-> Absent,
     maxUsagePerMonth |-> Absent]

CreateBodies == {CreateBody(n) : n \in PlanNames \cup {""}}

\* UpdatePlanRequest.Name: nil, or a pointer to a name
UpdateNames == {[set |-> FALSE, val |-> ""]} \cup {[set |-> TRUE, val |-> n] : n \in PlanNames}

NoPlanReq == [op |-> "", id |-> "", name |-> "", userID |-> ""]

NoPlanResp == [status |-> 0, plan |-> NoPlan]

StatusCreated == 201
StatusNotFound == 404
StatusConflict == 409

\* SELECT EXISTS(SELECT 1 FROM plans WHERE name = $1)
planNameExists(name) ==
    \E id \in PlanIds : plans[id].exists /\ plans[id].name = name

\* SELECT EXISTS(SELECT 1 FROM subscriptions WHERE plan_id = $1 AND status = 'active')
planHasActiveSubscriptions(planID) ==
    \E u \in UserIds :
        subs[u].exists /\ subs[u].planID = planID /\ subs[u].status = "active"

\* plan_id REFERENCES plans(id) ON DELETE RESTRICT: a row of subscriptions,
\* of any status, refers to the plan
Referenced(planID) ==
    \E u \in UserIds : subs[u].exists /\ subs[u].planID = planID

\* c.JSON(status, body) and return: the handler's local variables are gone
PlanAnswer(q, status, plan) ==
    /\ plPc' = [plPc EXCEPT ![q] = "done"]
    /\ plResp' = [plResp EXCEPT ![q] = [status |-> status, plan |-> plan]]
    /\ plPlan' = [plPlan EXCEPT ![q] = NoPlan]
    /\ plList' = [plList EXCEPT ![q] = {}]


\* CreatePlan requests that have not yet taken their id
Creating ==
    {d \in Callers : plReq[d].op = "CreatePlan" /\ plPc[d] \in {"planNameExists", "createPlan"}}

\* CreatePlan: a request arrives; a body validatePlanRequest rejects is
\* answered 400.  The behaviour accepts as many plans as there are ids.
CreatePlanBind(q) ==
    /\ plPc[q] = "idle"
    /\ budget > 0
    /\ budget' = budget - 1
    /\ \E body \in CreateBodies :
          IF validatePlanRequest(body) # NoError
          THEN /\ plReq' = [plReq EXCEPT ![q] = [NoPlanReq EXCEPT !.op = "CreatePlan",
                                                                 !.name = body.name]]
               /\ PlanAnswer(q, StatusBadRequest, NoPlan)
          ELSE /\ nextPlan + Cardinality(Creating) < MaxNewPlans
               /\ plReq' = [plReq EXCEPT ![q] = [NoPlanReq EXCEPT !.op = "CreatePlan",
                                                                 !.name = body.name]]
               /\ plPc' = [plPc EXCEPT ![q] = "planNameExists"]
               /\ UNCHANGED <<plResp, plPlan, plList>>
    /\ UNCHANGED <<plans, nextPlan, planWrites, planCache, activeCache, subs>>
    /\ UNCHANGED notPlan

\* CreatePlan: planNameExists; a name in use is answered 409
CreatePlanNameExists(q) ==
    /\ plPc[q] = "planNameExists"
    /\ plReq[q].op = "CreatePlan"
    /\ IF planNameExists(plReq[q].name)
       THEN PlanAnswer(q, StatusConflict, NoPlan)
       ELSE /\ plPc' = [plPc EXCEPT ![q] = "createPlan"]
            /\ UNCHANGED <<plResp, plPlan, plList>>
    /\ UNCHANGED <<plans, nextPlan, planWrites, planCache, activeCache, subs,
                   budget, plReq>>
    /\ UNCHANGED notPlan

\* CreatePlan: the plan gets generateID's id and is inserted; the table has
\* no constraint on name
CreatePlanInsert(q) ==
    /\ plPc[q] = "createPlan"
    /\ LET id == NewIds[nextPlan + 1]
           plan == [exists |-> TRUE, name |-> plReq[q].name, rev |-> planWrites + 1]
       IN  /\ nextPlan' = nextPlan + 1
           /\ planWrites' = planWrites + 1
           /\ plans' = [plans EXCEPT ![id] = plan]
           /\ plReq' = [plReq EXCEPT ![q].id = id]
           /\ plPlan' = [plPlan EXCEPT ![q] = plan]
    /\ plPc' = [plPc EXCEPT ![q] = "cachePlan"]
    /\ UNCHANGED <<planCache, activeCache, subs, budget, plList, plResp>>
    /\ UNCHANGED notPlan


\* cachePlan, the last step of CreatePlan, GetPlan and UpdatePlan: the key
\* plan:<id> is set to the handler's plan and plans:active is deleted; the
\* handler answers with its plan
CachePlan(q) ==
    /\ plPc[q] = "cachePlan"
    /\ planCache' = [planCache EXCEPT ![plReq[q].id] = plPlan[q]]
    /\ activeCache' = NoList
    /\ PlanAnswer(q, IF plReq[q].op = "CreatePlan" THEN StatusCreated ELSE StatusOK,
                  plPlan[q])
    /\ UNCHANGED <<plans, nextPlan, planWrites, subs, budget, plReq>>
    /\ UNCHANGED notPlan

\* GetPlan: a request arrives; getCachedPlan answers from the key plan:<id>
\* when it is there
GetPlanCached(q) ==
    /\ plPc[q] = "idle"
    /\ budget > 0
    /\ budget' = budget - 1
    /\ \E id \in PlanIds :
          /\ plReq' = [plReq EXCEPT ![q] = [NoPlanReq EXCEPT !.op = "GetPlan", !.id = id]]
          /\ IF planCache[id].exists
             THEN PlanAnswer(q, StatusOK, planCache[id])
             ELSE /\ plPc' = [plPc EXCEPT ![q] = "getPlanByID"]
                  /\ UNCHANGED <<plResp, plPlan, plList>>
    /\ UNCHANGED <<plans, nextPlan, planWrites, planCache, activeCache, subs>>
    /\ UNCHANGED notPlan

\* GetPlan: getPlanByID; a missing row is answered 404
GetPlanByID(q) ==
    /\ plPc[q] = "getPlanByID"
    /\ IF ~plans[plReq[q].id].exists
       THEN PlanAnswer(q, StatusNotFound, NoPlan)
       ELSE /\ plPlan' = [plPlan EXCEPT ![q] = plans[plReq[q].id]]
            /\ plPc' = [plPc EXCEPT ![q] = "cachePlan"]
            /\ UNCHANGED <<plResp, plList>>
    /\ UNCHANGED <<plans, nextPlan, planWrites, planCache, activeCache, subs,
                   budget, plReq>>
    /\ UNCHANGED notPlan

\* UpdatePlan: a request arrives; getPlanByID reads the plan, a missing row
\* is answered 404; a request that renames goes on to the name check
UpdatePlanGet(q) ==
    /\ plPc[q] = "idle"
    /\ budget > 0
    /\ budget' = budget - 1
    /\ \E id \in PlanIds, name \in UpdateNames :
          /\ plReq' = [plReq EXCEPT ![q] =
                          [NoPlanReq EXCEPT !.op = "UpdatePlan", !.id = id,
                                            !.name = IF name.set THEN name.val
                                                     ELSE plans[id].name]]
          /\ IF ~plans[id].exists
             THEN PlanAnswer(q, StatusNotFound, NoPlan)
             ELSE /\ plPlan' = [plPlan EXCEPT ![q] = plans[id]]
                  /\ plPc' = [plPc EXCEPT ![q] =
                                 IF name.set /\ name.val # plans[id].name
                                 THEN "planNameExists" ELSE "updatePlan"]
                  /\ UNCHANGED <<plResp, plList>>
    /\ UNCHANGED <<plans, nextPlan, planWrites, planCache, activeCache, subs>>
    /\ UNCHANGED notPlan

\* UpdatePlan: planNameExists; a name in use is answered 409
UpdatePlanNameExists(q) ==
    /\ plPc[q] = "planNameExists"
    /\ plReq[q].op = "UpdatePlan"
    /\ IF planNameExists(plReq[q].name)
       THEN PlanAnswer(q, StatusConflict, NoPlan)
       ELSE /\ plPc' = [plPc EXCEPT ![q] = "updatePlan"]
            /\ UNCHANGED <<plResp, plPlan, plList>>
    /\ UNCHANGED <<plans, nextPlan, planWrites, planCache, activeCache, subs,
                   budget, plReq>>
    /\ UNCHANGED notPlan

\* UpdatePlan: the handler's plan takes the request's fields and updatePlan
\* writes it; UPDATE ... WHERE id = $11 changes no row, without an error,
\* when the row is gone
UpdatePlanUpdate(q) ==
    /\ plPc[q] = "updatePlan"
    /\ LET plan == [exists |-> TRUE, name |-> plReq[q].name, rev |-> planWrites + 1]
       IN  /\ plPlan' = [plPlan EXCEPT ![q] = plan]
           /\ plans' = IF plans[plReq[q].id].exists
                       THEN [plans EXCEPT ![plReq[q].id] = plan]
                       ELSE plans
    /\ planWrites' = planWrites + 1
    /\ plPc' = [plPc EXCEPT ![q] = "cachePlan"]
    /\ UNCHANGED <<nextPlan, planCache, activeCache, subs, budget, plReq,
                   plList, plResp>>
    /\ UNCHANGED notPlan


\* DeletePlan: a request arrives; planHasActiveSubscriptions; a plan with an
\* active subscription is answered 409
DeletePlanCheck(q) ==
    /\ plPc[q] = "idle"
    /\ budget > 0
    /\ budget' = budget - 1
    /\ \E id \in PlanIds :
          /\ plReq' = [plReq EXCEPT ![q] = [NoPlanReq EXCEPT !.op = "DeletePlan", !.id = id]]
          /\ IF planHasActiveSubscriptions(id)
             THEN PlanAnswer(q, StatusConflict, NoPlan)
             ELSE /\ plPc' = [plPc EXCEPT ![q] = "deletePlan"]
                  /\ UNCHANGED <<plResp, plPlan, plList>>
    /\ UNCHANGED <<plans, nextPlan, planWrites, planCache, activeCache, subs>>
    /\ UNCHANGED notPlan

\* DeletePlan: deletePlan; the foreign key of subscriptions rejects the
\* DELETE of a referenced plan and the error is answered 500
DeletePlanDelete(q) ==
    /\ plPc[q] = "deletePlan"
    /\ IF Referenced(plReq[q].id)
       THEN /\ PlanAnswer(q, StatusInternalServerError, NoPlan)
            /\ UNCHANGED plans
       ELSE /\ plans' = [plans EXCEPT ![plReq[q].id] = NoPlan]
            /\ plPc' = [plPc EXCEPT ![q] = "removeCachedPlan"]
            /\ UNCHANGED <<plResp, plPlan, plList>>
    /\ UNCHANGED <<nextPlan, planWrites, planCache, activeCache, subs, budget, plReq>>
    /\ UNCHANGED notPlan

\* DeletePlan: removeCachedPlan deletes plan:<id> and plans:active; 200
RemoveCachedPlan(q) ==
    /\ plPc[q] = "removeCachedPlan"
    /\ planCache' = [planCache EXCEPT ![plReq[q].id] = NoPlan]
    /\ activeCache' = NoList
    /\ PlanAnswer(q, StatusOK, NoPlan)
    /\ UNCHANGED <<plans, nextPlan, planWrites, subs, budget, plReq>>
    /\ UNCHANGED notPlan

\* GetActivePlans: a request arrives; the key plans:active answers when it
\* is there
GetActivePlansCached(q) ==
    /\ plPc[q] = "idle"
    /\ budget > 0
    /\ budget' = budget - 1
    /\ plReq' = [plReq EXCEPT ![q] = [NoPlanReq EXCEPT !.op = "GetActivePlans"]]
    /\ IF activeCache.present
       THEN PlanAnswer(q, StatusOK, NoPlan)
       ELSE /\ plPc' = [plPc EXCEPT ![q] = "getActivePlans"]
            /\ UNCHANGED <<plResp, plPlan, plList>>
    /\ UNCHANGED <<plans, nextPlan, planWrites, planCache, activeCache, subs>>
    /\ UNCHANGED notPlan

\* GetActivePlans: getActivePlans reads the rows with is_active = true; no
\* modelled request clears is_active
GetActivePlansQuery(q) ==
    /\ plPc[q] = "getActivePlans"
    /\ plList' = [plList EXCEPT ![q] = {id \in PlanIds : plans[id].exists}]
    /\ plPc' = [plPc EXCEPT ![q] = "cacheActivePlans"]
    /\ UNCHANGED <<plans, nextPlan, planWrites, planCache, activeCache, subs,
                   budget, plReq, plPlan, plResp>>
    /\ UNCHANGED notPlan

\* GetActivePlans: cacheActivePlans sets plans:active; 200
CacheActivePlans(q) ==
    /\ plPc[q] = "cacheActivePlans"
    /\ activeCache' = [present |-> TRUE, ids |-> plList[q]]
    /\ PlanAnswer(q, StatusOK, NoPlan)
    /\ UNCHANGED <<plans, nextPlan, planWrites, planCache, subs, budget, plReq>>
    /\ UNCHANGED notPlan

\* CreateSubscription: a request arrives; a user with an active subscription
\* is answered 409.  A user sends one CreateSubscription at a time.
CreateSubscriptionLookup(q) ==
    /\ plPc[q] = "idle"
    /\ budget > 0
    /\ budget' = budget - 1
    /\ \E u \in UserIds, id \in PlanIds :
          /\ \A d \in Callers :
                ~(plReq[d].op = "CreateSubscription" /\ plReq[d].userID = u
                  /\ plPc[d] # "done")
          /\ plReq' = [plReq EXCEPT ![q] =
                          [NoPlanReq EXCEPT !.op = "CreateSubscription",
                                            !.id = id, !.userID = u]]
          /\ IF GetActiveSubscriptionByUserID(u).err = "nil"
             THEN PlanAnswer(q, StatusConflict, NoPlan)
             ELSE /\ plPc' = [plPc EXCEPT ![q] = "createSubscription"]
                  /\ UNCHANGED <<plResp, plPlan, plList>>
    /\ UNCHANGED <<plans, nextPlan, planWrites, planCache, activeCache, subs>>
    /\ UNCHANGED notPlan

\* CreateSubscription: createSubscription inserts an active row; the foreign
\* key rejects a plan_id that is not in plans and the error is answered 500.
\* cacheSubscription sets subscription:<id>, a key nothing modelled reads.
CreateSubscriptionInsert(q) ==
    /\ plPc[q] = "createSubscription"
    /\ IF plans[plReq[q].id].exists
       THEN /\ subs' = [subs EXCEPT ![plReq[q].userID] =
                           [exists |-> TRUE, status |-> "active",
                            planID |-> plReq[q].id, endDate |-> SubEnd]]
            /\ PlanAnswer(q, StatusCreated, NoPlan)
       ELSE /\ PlanAnswer(q, StatusInternalServerError, NoPlan)
            /\ UNCHANGED subs
    /\ UNCHANGED <<plans, nextPlan, planWrites, planCache, activeCache, budget, plReq>>
    /\ UNCHANGED notPlan

\* the handler has returned; the slot serves the next request
PlanReturn(q) ==
    /\ plPc[q] = "done"
    /\ plPc' = [plPc EXCEPT ![q] = "idle"]
    /\ plReq' = [plReq EXCEPT ![q] = NoPlanReq]
    /\ plResp' = [plResp EXCEPT ![q] = NoPlanResp]
    /\ UNCHANGED <<plans, nextPlan, planWrites, planCache, activeCache, subs,
                   budget, plPlan, plList>>
    /\ UNCHANGED notPlan

\* the hour of a cached plan is over
PlanCacheExpire(id) ==
    /\ planCache[id].exists
    /\ planCache' = [planCache EXCEPT ![id] = NoPlan]
    /\ UNCHANGED <<plans, nextPlan, planWrites, activeCache, subs, budget,
                   plPc, plReq, plPlan, plList, plResp>>
    /\ UNCHANGED notPlan

\* the thirty minutes of the cached list are over
ActivePlansExpire ==
    /\ activeCache.present
    /\ activeCache' = NoList
    /\ UNCHANGED <<plans, nextPlan, planWrites, planCache, subs, budget,
                   plPc, plReq, plPlan, plList, plResp>>
    /\ UNCHANGED notPlan

\* ------------------------------------------------------------------------
\* Specifications
\* ------------------------------------------------------------------------

PaymentInit ==
    /\ NewCircuitBreaker
    /\ now = 0
    /\ pc = [r \in Requests |-> "idle"]
    /\ resp = [r \in Requests |-> 0]
    /\ gateway = [r \in Requests |-> "none"]
    /\ recorded = [r \in Requests |-> <<>>]
    /\ stored = [r \in Requests |-> "none"]
    /\ tripped = FALSE
    /\ tripTime = 0

LimiterInit ==
    /\ rateKey = NoKey
    /\ ratePc = [c \in Callers |-> "idle"]
    /\ rateResult = [c \in Callers |-> FALSE]
    /\ winAllowed = 0
    /\ winAge = WindowTicks

\* no paywall request has arrived and nothing is cached
PaywallIdle ==
    /\ accessCache = [k \in AccessKeys |-> NoEntry]
    /\ pwPc = [q \in Callers |-> "idle"]
    /\ pwReq = [q \in Callers |-> NoReq]
    /\ pwSub = [q \in Callers |-> NoLookup]
    /\ pwAccess = [q \in Callers |-> NoAccess]
    /\ pwUsage = [q \in Callers |-> NoUsage]
    /\ pwResp = [q \in Callers |-> NoResp]
    /\ pwTrace = [q \in Callers |-> <<>>]

WebhookInit ==
    /\ webhookEvents = [id \in EventIds |-> NoRow]
    /\ whPc = [d \in Deliveries |-> "idle"]
    /\ whEvent = [d \in Deliveries |-> NoDelivery]
    /\ whResp = [d \in Deliveries |-> 0]
    /\ handlers = [id \in EventIds |-> "none"]
    /\ started = [id \in EventIds |-> 0]

\* no plan request has arrived, nothing is cached and the table holds the
\* plan the migration inserts
PlanIdle ==
    /\ plans = [id \in PlanIds |->
                  IF id = SeedPlan
                  THEN [exists |-> TRUE, name |-> "Basic", rev |-> 0]
                  ELSE NoPlan]
    /\ nextPlan = 0
    /\ planWrites = 0
    /\ planCache = [id \in PlanIds |-> NoPlan]
    /\ activeCache = NoList
    /\ plPc = [q \in Callers |-> "idle"]
    /\ plReq = [q \in Callers |-> NoPlanReq]
    /\ plPlan = [q \in Callers |-> NoPlan]
    /\ plList = [q \in Callers |-> {}]
    /\ plResp = [q \in Callers |-> NoPlanResp]

\* validatePlanRequest has not been called
ValidationIdle ==
    /\ valReq = CreateBody("Basic")
    /\ valErr = NoCall

Init ==
    /\ PaymentInit
    /\ LimiterInit
    /\ PaywallIdle
    /\ subs = [u \in UserIds |-> NoSub]
    /\ usageKey = NoKey
    /\ dayIncrs = 0
    /\ budget = 0
    /\ WebhookInit
    /\ PlanIdle
    /\ ValidationIdle

Next ==
    \/ \E r \in Requests : Bind(r)
    \/ \E r \in Requests : CanExecuteRLock(r)
    \/ \E r \in Requests : CanExecuteSwitch(r)
    \/ \E r \in Requests : LockCall(r)
    \/ \E r \in Requests : CanExecuteLock(r)
    \/ \E r \in Requests : CanExecuteRLockAgain(r)
    \/ \E r \in Requests : CanExecuteReturn(r)
    \/ \E r \in Requests : Gateway(r)
    \/ \E r \in Requests : GatewayError(r)
    \/ \E r \in Requests : GatewaySuccess(r)
    \/ \E r \in Requests : StoreTransaction(r)
    \/ \E r \in Requests : Return(r)
    \/ Tick

Spec == Init /\ [][Next]_vars

\* A request inside a call of the breaker keeps running.  A waiting Lock is
\* granted once the readers have left, RLock calls waiting behind it; the
\* RLock calls that waited are admitted when the writers have unlocked.
BreakerFairness ==
    \A r \in Requests :
        /\ SF_vars(CanExecuteRLock(r))
        /\ WF_vars(CanExecuteSwitch(r))
        /\ WF_vars(LockCall(r))
        /\ WF_vars(CanExecuteLock(r))
        /\ SF_vars(CanExecuteRLockAgain(r))
        /\ WF_vars(CanExecuteReturn(r))
        /\ WF_vars(GatewayError(r))
        /\ WF_vars(GatewaySuccess(r))

SpecFair == Init /\ [][Next]_vars /\ BreakerFairness

\* concurrent checkRateLimit calls for one (userID, action)
NextRateLimit ==
    \/ \E c \in Callers : RateGet(c)
    \/ \E c \in Callers : RateSet(c)
    \/ \E c \in Callers : RateIncr(c)
    \/ \E c \in Callers : RateReturn(c)
    \/ Expire

SpecRateLimit == Init /\ [][NextRateLimit]_vars

\* checkRateLimit calls for one (userID, action) issued one after another
NextRateLimitSequential ==
    \/ \E c \in Callers : RateGetAlone(c)
    \/ \E c \in Callers : RateSet(c)
    \/ \E c \in Callers : RateIncr(c)
    \/ \E c \in Callers : RateReturn(c)
    \/ Expire

SpecRateLimitSequential == Init /\ [][NextRateLimitSequential]_vars

\* the subscriptions table with this row for the user of EnforceRequest
SubTable(row) == [u \in UserIds |-> IF u = EnforceRequest.userID THEN row ELSE NoSub]

\* EnforcePaywall starts with the user's subscription row as it may be and
\* the day's usage counter either missing or, for a subscribed user, close
\* to the limit
EnforceInit ==
    /\ PaymentInit
    /\ LimiterInit
    /\ PaywallIdle
    /\ \/ /\ subs \in {SubTable(NoSub), SubTable(CancelledSub), SubTable(ActiveSub)}
          /\ usageKey = NoKey
       \/ /\ subs = SubTable(ActiveSub)
          /\ usageKey = NearQuota
    /\ dayIncrs = usageKey.count
    /\ budget = MaxCalls
    /\ WebhookInit
    /\ PlanIdle
    /\ ValidationIdle

\* concurrent EnforcePaywall requests for one (userID, action)
NextEnforce ==
    \/ \E q \in Callers : EnforceBind(q)
    \/ \E q \in Callers : EnforceCheckRateLimit(q)
    \/ \E q \in Callers : RateSet(q)
    \/ \E q \in Callers : RateIncr(q)
    \/ \E q \in Callers : EnforceRateLimited(q)
    \/ \E q \in Callers : SubscriptionLookup(q)
    \/ \E q \in Callers : EnforceCheckSubscription(q)
    \/ \E q \in Callers : EnforceCheckUsageLimits(q)
    \/ \E q \in Callers : EnforceIncr(q)
    \/ \E q \in Callers : EnforceExpire(q)
    \/ \E q \in Callers : PaywallReturn(q)
    \/ PaywallTick

SpecEnforce == EnforceInit /\ [][NextEnforce]_vars

\* EnforcePaywall requests for one (userID, action) issued one after another
NextEnforceSequential ==
    \/ \E q \in Callers : EnforceBindAlone(q)
    \/ \E q \in Callers : EnforceCheckRateLimit(q)
    \/ \E q \in Callers : RateSet(q)
    \/ \E q \in Callers : RateIncr(q)
    \/ \E q \in Callers : EnforceRateLimited(q)
    \/ \E q \in Callers : SubscriptionLookup(q)
    \/ \E q \in Callers : EnforceCheckSubscription(q)
    \/ \E q \in Callers : EnforceCheckUsageLimits(q)
    \/ \E q \in Callers : EnforceIncr(q)
    \/ \E q \in Callers : EnforceExpire(q)
    \/ \E q \in Callers : PaywallReturn(q)
    \/ PaywallTick

SpecEnforceSequential == EnforceInit /\ [][NextEnforceSequential]_vars

\* a burst of EnforcePaywall requests of a user with a subscription
BurstInit ==
    /\ PaymentInit
    /\ LimiterInit
    /\ PaywallIdle
    /\ subs = SubTable(ActiveSub)
    /\ usageKey = NoKey
    /\ dayIncrs = 0
    /\ budget = BurstCalls
    /\ WebhookInit
    /\ PlanIdle
    /\ ValidationIdle

\* the requests of a burst all arrive within one tick of the clock
NextEnforceBurst ==
    \/ \E q \in Callers : EnforceBind(q)
    \/ \E q \in Callers : EnforceCheckRateLimit(q)
    \/ \E q \in Callers : EnforceRateLimited(q)
    \/ \E q \in Callers : RateSet(q)
    \/ \E q \in Callers : RateIncr(q)
    \/ \E q \in Callers : SubscriptionLookup(q)
    \/ \E q \in Callers : EnforceCheckSubscription(q)
    \/ \E q \in Callers : EnforceCheckUsageLimits(q)
    \/ \E q \in Callers : EnforceIncr(q)
    \/ \E q \in Callers : EnforceExpire(q)
    \/ \E q \in Callers : PaywallReturn(q)

SpecEnforceBurst == BurstInit /\ [][NextEnforceBurst]_vars

\* CheckAccess starts with an empty cache; one user has a subscription row,
\* active or cancelled, and the other has none
CheckAccessInit ==
    /\ PaymentInit
    /\ LimiterInit
    /\ PaywallIdle
    /\ subs \in {SubTable(ActiveSub), SubTable(CancelledSub)}
    /\ usageKey = NoKey
    /\ dayIncrs = 0
    /\ budget = MaxChecks
    /\ WebhookInit
    /\ PlanIdle
    /\ ValidationIdle

\* concurrent CheckAccess requests
NextCheckAccess ==
    \/ \E q \in Callers : CheckAccessBind(q)
    \/ \E q \in Callers : CheckAccessGetCached(q)
    \/ \E q \in Callers : SubscriptionLookup(q)
    \/ \E q \in Callers : CheckAccessCheckSubscription(q)
    \/ \E q \in Callers : CheckAccessCache(q)
    \/ \E q \in Callers : PaywallReturn(q)
    \/ PaywallTick

SpecCheckAccess == CheckAccessInit /\ [][NextCheckAccess]_vars

\* concurrent webhook deliveries and their handlers
NextWebhook ==
    \/ \E d \in Deliveries : WebhookReceive(d)
    \/ \E d \in Deliveries : WebhookVerify(d)
    \/ \E d \in Deliveries : WebhookBind(d)
    \/ \E d \in Deliveries : WebhookStore(d)
    \/ \E d \in Deliveries : WebhookGo(d)
    \/ \E d \in Deliveries : WebhookAck(d)
    \/ \E d \in Deliveries : WebhookReturn(d)
    \/ \E id \in EventIds : ProcessWebhookEvent(id)
    \/ \E id \in EventIds : MarkWebhookProcessed(id)

SpecWebhook == Init /\ [][NextWebhook]_vars

\* the plan service starts with the migration's plan; its user has an active
\* subscription to it, or nobody has a subscription
PlanInit ==
    /\ PaymentInit
    /\ LimiterInit
    /\ PaywallIdle
    /\ subs \in {SubTable(NoSub), SubTable(ActiveSub)}
    /\ usageKey = NoKey
    /\ dayIncrs = 0
    /\ budget = MaxPlanCalls
    /\ WebhookInit
    /\ PlanIdle
    /\ ValidationIdle

\* concurrent requests to the plan service and CreateSubscription requests
NextPlan ==
    \/ \E q \in Callers : CreatePlanBind(q)
    \/ \E q \in Callers : CreatePlanNameExists(q)
    \/ \E q \in Callers : CreatePlanInsert(q)
    \/ \E q \in Callers : CachePlan(q)
    \/ \E q \in Callers : GetPlanCached(q)
    \/ \E q \in Callers : GetPlanByID(q)
    \/ \E q \in Callers : UpdatePlanGet(q)
    \/ \E q \in Callers : UpdatePlanNameExists(q)
    \/ \E q \in Callers : UpdatePlanUpdate(q)
    \/ \E q \in Callers : DeletePlanCheck(q)
    \/ \E q \in Callers : DeletePlanDelete(q)
    \/ \E q \in Callers : RemoveCachedPlan(q)
    \/ \E q \in Callers : GetActivePlansCached(q)
    \/ \E q \in Callers : GetActivePlansQuery(q)
    \/ \E q \in Callers : CacheActivePlans(q)
    \/ \E q \in Callers : CreateSubscriptionLookup(q)
    \/ \E q \in Callers : CreateSubscriptionInsert(q)
    \/ \E q \in Callers : PlanReturn(q)
    \/ \E id \in PlanIds : PlanCacheExpire(id)
    \/ ActivePlansExpire

SpecPlan == PlanInit /\ [][NextPlan]_vars

\* name, price, currency, billing_cycle and usage limits of the requests
\* handed to validatePlanRequest; a price is a whole amount
ValidationRequests ==
    [name : {"", "Basic"},
     price : {-1, 0, 1},
     currency : {<<>>, <<"U", "S">>, <<"U", "S", "D">>, <<"U", "S", "D", "T">>},
     billingCycle : BillingCycles \cup {"", "quarterly"},
     maxUsagePerDay : {Absent, Ptr(-1), Ptr(0), Ptr(1)},
     maxUsagePerMonth : {Absent, Ptr(-1), Ptr(0), Ptr(1)}]

\* validatePlanRequest is called once, with any of the requests
ValidationInit ==
    /\ PaymentInit
    /\ LimiterInit
    /\ PaywallIdle
    /\ subs = [u \in UserIds |-> NoSub]
    /\ usageKey = NoKey
    /\ dayIncrs = 0
    /\ budget = 0
    /\ WebhookInit
    /\ PlanIdle
    /\ valReq \in ValidationRequests
    /\ valErr = NoCall

SpecValidation == ValidationInit /\ [][ValidatePlanRequest]_vars

\* ------------------------------------------------------------------------
\* Properties of the circuit breaker and of ProcessPayment
\* ------------------------------------------------------------------------

\* request r's CanExecute call evaluates the breaker in this step
Evaluates(r) == pc[r] = "switch" /\ pc'[r] # "switch"

\* request r's CanExecute call returns false in this step
Refused(r) == pc[r] = "switch" /\ pc'[r] = "done"

\* request r's CanExecute call writes HalfOpen in this step
WritesHalfOpen(r) == pc[r] = "Lock" /\ pc'[r] # "Lock"

\* request r records its gateway failure on the breaker in this step
RecordsFailure(r) == pc[r] = "RecordFailure" /\ pc'[r] # "RecordFailure"

\* request r records its gateway success on the breaker in this step
RecordsSuccess(r) == pc[r] = "RecordSuccess" /\ pc'[r] # "RecordSuccess"

\* C1: once the breaker has transitioned to Open at time T (tripTime), every
\* CanExecute call evaluated before T + RecoveryTimeout returns false, in
\* every interleaving of ProcessPayment requests.
C1_OpenRefusesUntilTimeout ==
    [][\A r \in Requests :
          (Evaluates(r) /\ tripped /\ now < tripTime + RecoveryTimeout)
             => Refused(r)]_vars

\* C2: a Closed breaker stays Closed while failureCount < FailureThreshold and
\* becomes Open at exactly the RecordFailure that brings failureCount to
\* FailureThreshold; RecordSuccess resets the count to 0.
C2_TripsExactlyAtThreshold ==
    [][/\ (state' = "Closed" => failureCount' < FailureThreshold)
       /\ \A r \in Requests :
            /\ (RecordsFailure(r) /\ state = "Closed")
                  => /\ failureCount' = failureCount + 1
                     /\ state' \in {"Closed", "Open"}
                     /\ (state' = "Open") <=> (failureCount' = FailureThreshold)
            /\ RecordsSuccess(r)
                  => /\ failureCount' = 0
                     /\ state' = "Closed"]_vars

\* C2 witness: the breaker has just tripped, at exactly FailureThreshold failures
C2_Witness ==
    /\ state = "Open"
    /\ failureCount = FailureThreshold
    /\ tripTime = lastFailureTime
    /\ \E r \in Requests : pc[r] = "done" /\ recorded[r] = <<"failure">>

\* C3: every HalfOpen write of CanExecute is the Open -> HalfOpen edge: it is
\* made while the breaker is still Open with its recovery timeout elapsed,
\* never after the state has left Open or has been re-opened afresh.
C3_HalfOpenWrittenOnlyFromOpen ==
    [][\A r \in Requests :
          WritesHalfOpen(r) => (state = "Open" /\ RecoveryElapsed)]_vars

\* C4: in every reachable HalfOpen state one RecordSuccess leaves the breaker
\* Closed with failureCount 0 and one RecordFailure leaves it Open with
\* lastFailureTime set to the time of that failure.
C4_HalfOpenOutcomeDecides ==
    [][\A r \in Requests :
          state = "HalfOpen"
             => /\ RecordsSuccess(r) => (state' = "Closed" /\ failureCount' = 0)
                /\ RecordsFailure(r) => (state' = "Open" /\ lastFailureTime' = now)]_vars

C6_RefusalChangesNothing ==
    [][\A r \in Requests :
          /\ Refused(r)
                => /\ resp'[r] = StatusServiceUnavailable
                   /\ UNCHANGED <<state, failureCount, lastFailureTime>>
                   /\ UNCHANGED <<gateway, stored, recorded>>
          /\ resp'[r] = StatusServiceUnavailable
                => /\ gateway'[r] = "none"
                   /\ stored'[r] = "none"
                   /\ recorded'[r] = <<>>
                   /\ pc'[r] = "done"]_vars

\* C6 witness: a request was refused by the breaker
C6_Witness ==
    \E r \in Requests :
        /\ pc[r] = "done"
        /\ resp[r] = StatusServiceUnavailable
        /\ state = "Open"

\* C7: a request that has answered has recorded exactly one outcome on the
\* breaker if it invoked the gateway (a failure, with a 500 and nothing
\* stored, when the gateway failed; a success when it succeeded) and none if
\* validation or the breaker rejected it.
C7_OneOutcomePerGatewayCall ==
    \A r \in Requests :
        /\ Len(recorded[r]) <= 1
        /\ resp[r] # 0 =>
              /\ gateway[r] = "err"
                    => /\ recorded[r] = <<"failure">>
                       /\ resp[r] = StatusInternalServerError
                       /\ stored[r] = "none"
              /\ gateway[r] = "ok" => recorded[r] = <<"success">>
              /\ gateway[r] = "none"
                    => /\ recorded[r] = <<>>
                       /\ resp[r] \in {StatusBadRequest, StatusServiceUnavailable}

\* C7 witness: a gateway failure was answered with 500 after RecordFailure
C7_Witness ==
    \E r \in Requests :
        /\ gateway[r] = "err"
        /\ resp[r] = StatusInternalServerError
        /\ recorded[r] = <<"failure">>

\* C8: after a successful gateway call the response is 200 and the success
\* is what the breaker recorded, whether storeTransaction succeeded or
\* failed; storeTransaction itself never touches the breaker.
C8_StoreFailureIsSwallowed ==
    [][\A r \in Requests :
          (pc[r] = "storeTransaction" /\ pc'[r] # "storeTransaction")
             => /\ gateway[r] = "ok"
                /\ resp'[r] = StatusOK
                /\ recorded'[r] = <<"success">>
                /\ UNCHANGED <<state, failureCount, lastFailureTime>>]_vars

\* C8 witness: the transaction could not be stored and the answer is 200
C8_Witness ==
    \E r \in Requests :
        /\ stored[r] = "err"
        /\ resp[r] = StatusOK
        /\ recorded[r] = <<"success">>


\* ------------------------------------------------------------------------
\* Properties of the rate limiter
\* ------------------------------------------------------------------------

\* call c reads the counter in this step
Reads(c) == ratePc[c] = "idle" /\ ratePc'[c] # "idle"

\* call c returns false in this step
Denied(c) == Reads(c) /\ ratePc'[c] = "done"

\* C9: with calls issued one after another, a call made in a window in which
\* RateLimit calls already returned true returns false, and a call made once
\* the window (WindowTicks from its first call) has elapsed returns true.
C9_WindowLimitsThenResets ==
    [][\A c \in Callers :
          /\ (Reads(c) /\ rateKey.present /\ winAge < WindowTicks
                       /\ winAllowed >= RateLimit) => Denied(c)
          /\ (Reads(c) /\ winAge >= WindowTicks) => ~Denied(c)]_vars

\* C10: at most RateLimit calls return true within one window, in every
\* interleaving of concurrent calls.
C10_AtMostLimitPerWindow == winAllowed <= RateLimit

\* ------------------------------------------------------------------------
\* Properties of EnforcePaywall
\* ------------------------------------------------------------------------

\* request q of EnforcePaywall answers 200 in this step
Allows(q) == pwPc[q] = "Expire" /\ pwPc'[q] = "done"

\* request q increments the usage counter in this step
Increments(q) == pwPc[q] = "Incr" /\ pwPc'[q] = "Expire"

\* the value of the usage counter, 0 when the key is missing
UsageCount == IF usageKey.present THEN usageKey.count ELSE 0

\* C11 (as stated): with calls issued one after another, the k-th call of the
\* day is allowed and reports usage.current = k and usage.remaining =
\* UsageLimit - k, k being the value of the counter once the call has
\* incremented it.
C11_ReportsCountWithCall ==
    [][\A q \in Callers :
          (Allows(q) /\ usageKey.present)
             => /\ pwResp'[q].verdict = "positive"
                /\ pwResp'[q].usage.current = usageKey.count
                /\ pwResp'[q].usage.remaining = UsageLimit - usageKey.count]_vars

\* C11 (amended): with calls issued one after another, a call made when k - 1
\* calls have been counted that day is allowed and reports usage.current =
\* k - 1 and usage.remaining = UsageLimit - (k - 1): the response carries the
\* counter as read before the call's own increment, which then brings the
\* counter to k.  The first call reports current 0 and remaining UsageLimit.
C11_ReportsCountBeforeCall ==
    [][\A q \in Callers :
          /\ Increments(q)
                => /\ usageKey.present => pwUsage[q].current = usageKey.count
                   /\ usageKey'.count = UsageCount + 1
                   /\ pwUsage[q].current < UsageLimit
                         => pwUsage[q].remaining = UsageLimit - pwUsage[q].current
          /\ Allows(q)
                => /\ pwResp'[q].status = StatusOK
                   /\ pwResp'[q].verdict = "positive"
                   /\ pwResp'[q].usage = pwUsage[q]]_vars

\* C11 witness: the call that brought the counter from MaxCalls - 1 to
\* MaxCalls was allowed and reports MaxCalls - 1
C11_Witness ==
    \E q \in Callers :
        /\ pwPc[q] = "done"
        /\ pwResp[q].status = StatusOK
        /\ pwResp[q].usage.current = MaxCalls - 1
        /\ pwResp[q].usage.remaining = UsageLimit - (MaxCalls - 1)
        /\ usageKey.present
        /\ usageKey.count = MaxCalls

\* C12: the rate limiter is consulted first: a call that reads the counter in
\* a window in which RateLimit calls were already allowed is answered 429
\* whatever the subscription and the usage, and a call answered 429 has done
\* nothing but checkRateLimit: no lookup, no usage read, no increment.
C12_LimitReachedDeniesFirst ==
    [][\A q \in Callers :
          /\ (Reads(q) /\ rateKey.present /\ winAge < WindowTicks
                       /\ winAllowed >= RateLimit) => Denied(q)
          /\ pwResp'[q].status = StatusTooManyRequests
                => /\ pwTrace'[q] = <<"checkRateLimit">>
                   /\ pwResp'[q].error = "Rate limit exceeded"
          /\ (pwTrace'[q] # <<>> /\ pwReq'[q].handler = "EnforcePaywall")
                => pwTrace'[q][1] = "checkRateLimit"
          /\ (pwPc[q] = "checkRateLimit" /\ pwPc'[q] = "done") => UNCHANGED usageKey]_vars

C14_OvershootBoundedByInFlight ==
    usageKey.present
       => usageKey.count <= UsageLimit
             + Cardinality({q \in Callers : pwPc[q] \notin {"idle", "done"}})

\* ------------------------------------------------------------------------
\* Properties of CheckAccess
\* ------------------------------------------------------------------------

\* request q of CheckAccess gets the outcome of checkSubscriptionAccess in this step
Decides(q) ==
    /\ pwPc[q] = "checkSubscriptionAccess"
    /\ pwPc'[q] # "checkSubscriptionAccess"
    /\ pwReq[q].handler = "CheckAccess"

\* request q is answered from the cache in this step
ServedFromCache(q) == pwPc[q] = "getCachedAccess" /\ pwPc'[q] = "done"

\* C15: without a cached verdict, CheckAccess allows exactly when the lookup
\* returned a subscription that is active, whose endDate is not before now
\* and whose plan is the requested one; then expiresAt is the endDate; when
\* the lookup found nothing it denies with "No active subscription found".
\* The answer is 200 with that verdict.
C15_AllowsExactlyValidSubscription ==
    [][\A q \in Callers :
          /\ Decides(q)
                => LET got == pwSub[q]
                       valid == /\ got.err = "nil"
                                /\ got.sub.status = "active"
                                /\ got.sub.endDate >= now
                                /\ \/ pwReq[q].planID = ""
                                   \/ got.sub.planID = pwReq[q].planID
                   IN  /\ pwPc'[q] = "cacheAccessResult"
                       /\ pwAccess'[q].hasAccess <=> valid
                       /\ valid => pwAccess'[q].expiresAt = got.sub.endDate
                       /\ got.err = "ErrNoRows"
                             => pwAccess'[q].reason = "No active subscription found"
          /\ (pwPc[q] = "cacheAccessResult" /\ pwPc'[q] = "done")
                => /\ pwResp'[q].status = StatusOK
                   /\ pwResp'[q].verdict = "positive" <=> pwAccess[q].hasAccess
                   /\ pwResp'[q].verdict = "negative" <=> ~pwAccess[q].hasAccess
                   /\ pwResp'[q].expiresAt = pwAccess[q].expiresAt
                   /\ pwResp'[q].reason = pwAccess[q].reason]_vars

\* C15 witness: an uncached check of a user with a valid subscription of the
\* requested plan was allowed until the subscription's endDate
C15_Witness ==
    \E q \in Callers :
        /\ pwPc[q] = "done"
        /\ pwTrace[q] = <<"getCachedAccess", "GetActiveSubscriptionByUserID",
                          "checkSubscriptionAccess", "cacheAccessResult">>
        /\ pwResp[q].status = StatusOK
        /\ pwResp[q].verdict = "positive"
        /\ pwResp[q].expiresAt = subs[pwReq[q].userID].endDate
        /\ subs[pwReq[q].userID].planID = pwReq[q].planID

\* C16: when the user's subscription is active but now is past its endDate,
\* the check denies with the expiry reason, not with "No active subscription
\* found".
C16_ExpiredIsReportedAsExpired ==
    [][\A q \in Callers :
          ( /\ Decides(q)
            /\ pwSub[q].err # "failure"
            /\ subs[pwReq[q].userID].exists
            /\ subs[pwReq[q].userID].status = "active"
            /\ now > subs[pwReq[q].userID].endDate )
             => /\ ~pwAccess'[q].hasAccess
                /\ pwAccess'[q].reason = "Subscription has expired"]_vars

\* C17: a verdict served from the cache was computed for the same
\* (userID, contentID, planID) as the request it is served to.
C17_CachedVerdictIsForSameRequest ==
    [][\A q \in Callers :
          ServedFromCache(q)
             => /\ accessCache[AccessKey(pwReq[q])].present
                /\ accessCache[AccessKey(pwReq[q])].ttl <= AccessTicks
                /\ accessCache[AccessKey(pwReq[q])].for = pwReq[q]]_vars

\* C18: a business denial (no active subscription, not active, expired, plan
\* mismatch, rate limit) is answered with status 200 and a negative verdict
\* with its reason, never with an error status.
C18_DenialsAreVerdicts ==
    \A q \in Callers :
        ( \/ pwResp[q].verdict = "negative"
          \/ pwResp[q].error \in {"Rate limit exceeded", "Access denied"} )
           => /\ pwResp[q].status = StatusOK
              /\ pwResp[q].verdict = "negative"
              /\ pwResp[q].reason # ""

\* C19: when the subscription lookup fails for another reason than not
\* finding a row, the request is answered with a system error (500) and is
\* not told "No active subscription found".
C19_StoreFailureIsAnError ==
    [][\A q \in Callers :
          (Decides(q) /\ pwSub[q].err = "failure")
             => /\ pwPc'[q] = "done"
                /\ pwResp'[q].status = StatusInternalServerError]_vars

\* ------------------------------------------------------------------------
\* Properties of the webhook ingestor
\* ------------------------------------------------------------------------

\* C20: a delivery whose signature is not the gateway's is answered 401 and
\* goes no further: it stores no event and starts no handler.
C20_UnsignedIsRejected ==
    \A d \in Deliveries :
        (whPc[d] \notin {"idle", "verifyWebhookSignature"} /\ ~whEvent[d].signed)
           => /\ whPc[d] = "done"
              /\ whResp[d] = StatusUnauthorized


\* the row of event id is marked processed
Processed(id) == webhookEvents[id].present /\ webhookEvents[id].processed

\* C21: a delivery whose storeWebhookEvent fails is answered with an error,
\* not with the acknowledgement, and starts no handler; a handler is started
\* only by a delivery whose event is stored with processed = false.
C21_StoreFailureStopsIngest ==
    [][\A d \in Deliveries :
          /\ (whPc[d] = "storeWebhookEvent" /\ whPc'[d] = "done")
                => /\ whResp'[d] = StatusInternalServerError
                   /\ UNCHANGED <<webhookEvents, handlers, started>>
          /\ (whPc[d] = "storeWebhookEvent" /\ whPc'[d] = "go")
                => /\ ~webhookEvents[whEvent[d].id].present
                   /\ webhookEvents'[whEvent[d].id] =
                         [present |-> TRUE, type |-> whEvent[d].type,
                          processed |-> FALSE]
          /\ \A id \in EventIds :
                started'[id] # started[id]
                   => \E e \in Deliveries :
                         /\ whPc[e] = "go"
                         /\ whEvent[e].id = id
                         /\ webhookEvents[id].present
                         /\ ~webhookEvents[id].processed
          /\ (whPc'[d] = "done" /\ whResp'[d] = StatusOK) => whPc[d] \in {"ack", "done"}]_vars

\* C21 witness: a delivery was answered 500 because the store failed: its
\* event is not stored and no handler was ever started for it
C21_Witness ==
    \E d \in Deliveries :
        /\ whPc[d] = "done"
        /\ whResp[d] = StatusInternalServerError
        /\ ~webhookEvents[whEvent[d].id].present
        /\ started[whEvent[d].id] = 0

\* C22: the acknowledgement of an accepted delivery comes before the end of
\* the event's reaction: while the delivery has not been acknowledged, its
\* event is not marked processed.
C22_AckBeforeProcessed ==
    \A d \in Deliveries :
        whPc[d] \in {"go", "ack"} => ~Processed(whEvent[d].id)

\* C23: every acknowledged event ends up marked processed: once the detached
\* handler of an event has run to its end, the event's row is processed (no
\* other code marks it later, so an event left unmarked then stays unmarked
\* forever).
C23_HandledIsProcessed ==
    \A id \in EventIds :
        (started[id] > 0 /\ handlers[id] = "none") => Processed(id)

\* C24: the handler of an event whose type the switch does not know marks the
\* event processed and changes nothing else: no other row, no response, no
\* transaction, breaker, counter or cache entry.
C24_UnknownTypeOnlyMarks ==
    [][\A id \in EventIds :
          (handlers[id] # handlers'[id] /\ handlers[id] # "none"
              /\ webhookEvents[id].type \notin KnownTypes)
             => /\ UNCHANGED <<paymentVars, limiterVars, paywallVars>>
                /\ UNCHANGED <<whPc, whEvent, whResp, started>>
                /\ \A other \in EventIds \ {id} :
                      /\ webhookEvents'[other] = webhookEvents[other]
                      /\ handlers'[other] = handlers[other]
                /\ webhookEvents'[id].present = webhookEvents[id].present
                /\ webhookEvents'[id].type = webhookEvents[id].type
                /\ handlers'[id] = "none" => webhookEvents'[id].processed]_vars

ReadsUsage(q) == pwPc[q] = "checkUsageLimits" /\ pwPc'[q] = "Incr"

\* C26: the status read of the usage counter reports the number of
\* increments made so far on the current day: current UsageLimit and
\* remaining 0 after exactly UsageLimit increments, and after a day boundary
\* only the increments made since the boundary.
C26_StatusCountsTheDay ==
    [][\A q \in Callers :
          ReadsUsage(q)
             => /\ pwUsage'[q].current = dayIncrs
                /\ pwUsage'[q].remaining =
                      IF dayIncrs >= UsageLimit THEN 0 ELSE UsageLimit - dayIncrs]_vars

\* C27: every rate-limit counter in the cache store carries an expiry of at
\* most one window.
C27_CounterAlwaysExpires ==
    rateKey.present => (rateKey.expires /\ rateKey.ttl <= WindowTicks)

\* C28: the rate-limit count never decreases while the key exists; it only
\* goes away when the key expires.
C28_CountNeverDecreases ==
    [][(rateKey.present /\ rateKey'.present)
          => rateKey'.count >= rateKey.count]_vars

\* the rate limiter lets request q pass in this step, by Set or by Incr
Admits(q) ==
    /\ pwPc[q] = "checkRateLimit"
    /\ ratePc[q] \in {"Set", "Incr"}
    /\ ratePc'[q] = "done"

\* request q is answered 403 in this step
Forbids(q) == pwResp[q].status = 0 /\ pwResp'[q].status = StatusForbidden

\* C29 (as stated): EnforcePaywall checks the subscription before the rate
\* limit: a request denied for its subscription has not been through
\* checkRateLimit and has neither created nor incremented the rate-limit
\* counter.
C29_SubscriptionCheckedFirst ==
    [][\A q \in Callers :
          /\ Forbids(q) => pwTrace'[q][1] = "GetActiveSubscriptionByUserID"
          /\ Admits(q) => ( /\ pwTrace[q] # <<>>
                            /\ pwTrace[q][1] = "GetActiveSubscriptionByUserID" )]_vars

\* C29 (amended): EnforcePaywall checks the rate limit before the
\* subscription: the lookup is made only after checkRateLimit returned true,
\* which created or incremented the rate-limit counter, and a request denied
\* for its subscription is answered 403 with the subscription reason after
\* exactly checkRateLimit, the lookup and the check.
C29_RateLimitCheckedFirst ==
    [][\A q \in Callers :
          /\ Admits(q)
                => /\ pwTrace[q] = <<>>
                   /\ rateKey'.present
                   /\ rateKey'.count = 1 \/ rateKey'.count = rateKey.count + 1
                   /\ rateResult'[q]
          /\ (pwPc[q] = "lookup" /\ pwReq[q].handler = "EnforcePaywall")
                => pwTrace[q] = <<"checkRateLimit">>
          /\ Forbids(q)
                => /\ pwTrace'[q] = <<"checkRateLimit", "GetActiveSubscriptionByUserID",
                                      "checkSubscriptionAccess">>
                   /\ pwResp'[q].error = "Access denied"
                   /\ pwResp'[q].reason \in {"No active subscription found",
                                             "Subscription is not active",
                                             "Subscription has expired"}
                   /\ UNCHANGED <<rateKey, usageKey>>]_vars

\* C29 witness: a request of a user without a subscription was denied 403
\* and the rate-limit counter it created is in the cache store
C29_Witness ==
    \E q \in Callers :
        /\ pwPc[q] = "done"
        /\ pwResp[q].status = StatusForbidden
        /\ pwResp[q].reason = "No active subscription found"
        /\ ~subs[pwReq[q].userID].exists
        /\ rateKey.present
        /\ winAllowed >= 1

\* ------------------------------------------------------------------------
\* The Open state and the recovery timeout
\* ------------------------------------------------------------------------

\* C30 (as stated): whenever the breaker is Open, less than RecoveryTimeout
\* has passed since lastFailureTime.
C30_OpenOnlyWithinTimeout ==
    state = "Open" => now - lastFailureTime < RecoveryTimeout

\* C30 (amended): whenever the breaker refuses a call, it is Open and at most
\* RecoveryTimeout has passed since lastFailureTime; it may stay Open longer,
\* until the next CanExecute call, but refuses nothing then.
C30_RefusesOnlyWithinTimeout ==
    [][\A r \in Requests :
          Refused(r)
             => /\ state = "Open"
                /\ state' = "Open"
                /\ now - lastFailureTime <= RecoveryTimeout]_vars

\* C30 witness: a call was refused and the breaker is still Open after more
\* than RecoveryTimeout since lastFailureTime
C30_Witness ==
    /\ state = "Open"
    /\ now - lastFailureTime > RecoveryTimeout
    /\ \E r \in Requests : pc[r] = "done" /\ resp[r] = StatusServiceUnavailable

\* C31: a CanExecute call that acts while the breaker is Closed or HalfOpen
\* returns true and changes none of state, failureCount and lastFailureTime,
\* whatever other requests are in flight.
C31_ClosedAndHalfOpenAllowUntouched ==
    [][\A r \in Requests :
          ((Evaluates(r) \/ WritesHalfOpen(r)) /\ state \in {"Closed", "HalfOpen"})
             => /\ pc'[r] \in {"gateway", "RLock"}
                /\ UNCHANGED <<state, failureCount, lastFailureTime>>]_vars

\* ------------------------------------------------------------------------
\* Properties of the plan service
\* ------------------------------------------------------------------------

\* C32: no two plans of the table ever share a name, whatever CreatePlan and
\* renaming UpdatePlan requests run concurrently.
C32_PlanNamesUnique ==
    \A a, b \in PlanIds :
        (a # b /\ plans[a].exists /\ plans[b].exists) => plans[a].name # plans[b].name

\* request q is a GetPlan answered from the key plan:<id> in this step
ServedFromPlanCache(q) ==
    plPc[q] = "idle" /\ plReq'[q].op = "GetPlan" /\ plPc'[q] = "done"

\* an UpdatePlan or DeletePlan of the plan has written the table and has
\* not yet answered
Changing(id) ==
    \E d \in Callers :
        /\ plReq[d].id = id
        /\ \/ plReq[d].op = "UpdatePlan" /\ plPc[d] = "cachePlan"
           \/ plReq[d].op = "DeletePlan" /\ plPc[d] = "removeCachedPlan"

\* C33: once every UpdatePlan and DeletePlan that changed plan P has
\* answered, a GetPlan(P) served from the cache returns the plan as the
\* table holds it: never an earlier version, and nothing after a delete.
C33_CacheFollowsCompletedChanges ==
    [][\A q \in Callers :
          (ServedFromPlanCache(q) /\ ~Changing(plReq'[q].id))
             => plResp'[q].plan = plans[plReq'[q].id]]_vars

\* request q is a DeletePlan that, in this step, checks or deletes a plan
\* with an active subscription
DeletesSubscribedPlan(q) ==
    \/ /\ plPc[q] = "idle"
       /\ plReq'[q].op = "DeletePlan"
       /\ planHasActiveSubscriptions(plReq'[q].id)
    \/ /\ plPc[q] = "deletePlan"
       /\ plPc'[q] # "deletePlan"
       /\ planHasActiveSubscriptions(plReq[q].id)

\* C34: a DeletePlan that meets a plan with an active subscription, at its
\* check or at its delete, answers 409 and leaves the plan and the plan
\* caches unchanged.
C34_SubscribedPlanIsKeptWithConflict ==
    [][\A q \in Callers :
          DeletesSubscribedPlan(q)
             => /\ plResp'[q].status = StatusConflict
                /\ UNCHANGED <<plans, planCache, activeCache>>]_vars

\* the first field of the request that breaks a validation rule as
\* documented, "" when none does
FirstFailingField(req) ==
    IF req.name = "" THEN "Name"
    ELSE IF req.price < 0 THEN "Price"
    ELSE IF Len(req.currency) # 3 THEN "Currency"
    ELSE IF req.billingCycle \notin {"monthly", "yearly", "weekly", "daily"}
         THEN "BillingCycle"
    ELSE IF req.maxUsagePerDay.set /\ req.maxUsagePerDay.val < 0 THEN "MaxUsagePerDay"
    ELSE IF req.maxUsagePerMonth.set /\ req.maxUsagePerMonth.val < 0
         THEN "MaxUsagePerMonth"
    ELSE ""

\* C35: validatePlanRequest returns nil exactly for a request with a name, a
\* non-negative price, a currency of 3 characters, a listed billing cycle
\* and usage limits that are absent or non-negative; otherwise its error
\* names the first failing field.
C35_AcceptsExactlyDocumentedRequests ==
    valErr # NoCall
       => /\ (valErr = NoError) <=> (FirstFailingField(valReq) = "")
          /\ valErr.field = FirstFailingField(valReq)

\* ------------------------------------------------------------------------
\* Further properties of the rate limiter and of the usage counter
\* ------------------------------------------------------------------------

\* C36: a checkRateLimit call that finds the counter present with a count of
\* RateLimit or more returns false and leaves the counter's value and its
\* expiry as they were.
C36_DenialLeavesCounter ==
    [][\A c \in Callers :
          (Reads(c) /\ rateKey.present /\ rateKey.count >= RateLimit)
             => /\ Denied(c)
                /\ rateResult'[c] = FALSE
                /\ rateKey' = rateKey]_vars

\* C36 witness: a call was denied on a full counter that is part-way
\* through its window
C36_Witness ==
    /\ rateKey.present
    /\ rateKey.count >= RateLimit
    /\ rateKey.expires
    /\ rateKey.ttl < WindowTicks
    /\ \E c \in Callers : ratePc[c] = "done" /\ rateResult[c] = FALSE

\* no EnforcePaywall request is between its arrival and its answer
EnforceQuiet == \A q \in Callers : pwPc[q] \in {"idle", "done"}

\* request q is answered 429 in this step
RateLimits(q) == pwResp[q].status = 0 /\ pwResp'[q].status = StatusTooManyRequests

\* C37: within a day, whenever the EnforcePaywall calls made so far have all
\* been answered, the usage counter equals the number of calls allowed
\* that day; each allowed call adds exactly one, and a call denied by the
\* rate limiter or by the subscription check leaves the counter unchanged.
C37_CounterEqualsAllowedCalls ==
    [][/\ EnforceQuiet' => (IF usageKey'.present THEN usageKey'.count ELSE 0) = dayIncrs'
       /\ \A q \in Callers :
            /\ Increments(q) => (usageKey'.present /\ usageKey'.count = UsageCount + 1)
            /\ (RateLimits(q) \/ Forbids(q)) => UNCHANGED usageKey]_vars

\* C38 (as stated): the usage counter's expiry is set only by a request
\* whose Incr created the key; a request whose Incr found the key leaves the
\* key's expiry as it was.
C38_ExpirySetOnlyOnCreation ==
    [][\A q \in Callers :
          (Allows(q) /\ ~CreatedKey(q))
             => /\ usageKey'.expires = usageKey.expires
                /\ usageKey'.ttl = usageKey.ttl]_vars

\* C38 (amended): every request sets the usage counter's expiry after its
\* Incr, whether or not that Incr created the key: the key gets the time
\* left until 23:59:59 of the current day as its time to live.
C38_ExpirySetOnEveryIncrement ==
    [][\A q \in Callers :
          Allows(q) => usageKey' = CacheExpire(usageKey, EndOfDay - now)]_vars

\* C38 witness: a request whose Incr found the key has set the key's expiry
\* and answered, while the request that created the key has not yet reached
\* its Expire
C38_Witness ==
    \E q, d \in Callers :
        /\ pwPc[q] = "done"
        /\ pwResp[q].status = StatusOK
        /\ ~CreatedKey(q)
        /\ pwPc[d] = "Expire"
        /\ CreatedKey(d)
        /\ usageKey.present
        /\ usageKey.expires

\* ------------------------------------------------------------------------
\* Further properties of the circuit breaker
\* ------------------------------------------------------------------------

\* C39: in every reachable state failureCount >= 0, and whenever the breaker
\* is Closed failureCount < FailureThreshold, in every interleaving of
\* CanExecute, RecordSuccess and RecordFailure.
C39_CountWithinBounds ==
    /\ failureCount >= 0
    /\ state = "Closed" => failureCount < FailureThreshold

\* C39 witness: the breaker was Open with FailureThreshold failures counted
\* or more, and a RecordSuccess has closed it with the count back at 0
C39_Witness ==
    /\ tripped
    /\ state = "Closed"
    /\ failureCount = 0
    /\ \E r \in Requests : recorded[r] = <<"success">>
    /\ \E r \in Requests : recorded[r] = <<"failure">>

\* the requests inside CanExecute holding the read lock are the only holders
\* of the breaker's lock, and only a request inside a write-locking call
\* waits for it
LockHeldInsideCallsOnly ==
    \A r \in Requests :
        /\ r \in mu => pc[r] \in {"switch", "return"}
        /\ r \in muWait => pc[r] \in {"Lock", "RecordSuccess", "RecordFailure"}

\* C40: every call of CanExecute, RecordSuccess and RecordFailure terminates
\* and returns with the breaker's lock released, in every interleaving of
\* concurrent requests, also on the path of CanExecute that releases the
\* read lock, takes the write lock and takes the read lock again; no
\* request holds the lock while its gateway call is in progress.
C40_BreakerCallsTerminateUnlocked ==
    /\ []LockHeldInsideCallsOnly
    /\ \A r \in Requests :
          /\ (pc[r] = "CanExecute") ~> (pc[r] \in {"gateway", "done"})
          /\ (pc[r] = "RecordSuccess") ~> (pc[r] = "storeTransaction")
          /\ (pc[r] = "RecordFailure") ~> (pc[r] = "done")

\* C40 witness: a request that wrote HalfOpen holds the read lock again,
\* about to return, while another request waits in Lock to record the
\* outcome of its gateway call
C40_Witness ==
    \E r, q \in Requests :
        /\ pc[r] = "return"
        /\ r \in mu
        /\ pc[q] \in {"RecordSuccess", "RecordFailure"}
        /\ q \in muWait

=============================================================================
